---- MODULE Spec2Model ----
(***************************************************************************)
(* Task orchestration of the digital-human backend: the task registry of   *)
(* backend/task_manager.py, its stage coroutines (upload_materials,        *)
(* generate_script, generate_audio, start_generation, _run_generation)     *)
(* and the status query of backend/main.py (specification Spec); the       *)
(* helpers and the polling loop of the remote-queue client                 *)
(* backend/services/runninghub_service.py (SpecClient, SpecWait); and the  *)
(* local runner backend/services/comfyui_service.py with its caller        *)
(* index_tts_service.py (SpecComfy).                                       *)
(*                                                                         *)
(* The coroutines run on one asyncio event loop, so the code between two   *)
(* awaits of a coroutine is one atomic step.  Every action below is one    *)
(* such segment; a coroutine suspended at an await is a record in `calls`. *)
(* Consecutive awaits between which the coroutine does not touch the task  *)
(* registry are one suspension point.                                      *)
(***************************************************************************)
EXTENDS Integers, Sequences, FiniteSets, Bags, TLC

\* ------------------------------------------------------------------ bounds
MaxOps == 4         \* stage requests (upload, script, audio, start) made
MaxLen == 3         \* length of the enumerated workflow references
MaxTime == 12       \* seconds the clock of a wait_for_outputs call runs
MaxOutputs == 2     \* output descriptors in the list handed to a picker
MaxJobs == 2        \* local-runner jobs submitted, concurrently or not

\* --------------------------------------------------------------- constants
None == "None"      \* Python None
\* an Optional[int] or Optional[float] value: NoNumber is None, Some(n) is n
NoNumber == <<>>
Some(n)  == <<n>>

\* models.TaskStatus
PENDING           == "pending"
UPLOADING         == "uploading"
GENERATING_SCRIPT == "generating_script"
GENERATING_IMAGE  == "generating_image"
GENERATING_AUDIO  == "generating_audio"
AUDIO_READY       == "audio_ready"
GENERATING_VIDEO  == "generating_video"
COMPLETED         == "completed"
FAILED            == "failed"

TaskStatus == {PENDING, UPLOADING, GENERATING_SCRIPT, GENERATING_IMAGE,
               GENERATING_AUDIO, AUDIO_READY, GENERATING_VIDEO, COMPLETED,
               FAILED}

\* models.LanguageEnum, PlatformEnum, DurationModeEnum, ScriptModeEnum,
\* AudioSourceEnum, TTSEngineEnum
LanguageEnum     == {"zh", "en"}
PlatformEnum     == {"tiktok", "instagram"}
DurationModeEnum == {"follow_audio", "fixed"}
ScriptModeEnum   == {"llm", "manual"}
AudioSourceEnum  == {"auto", "existing_generated"}
MEGA_TTS3        == "mega_tts3"

\* a strip that leaves a whitespace-only text as it is
Strip_nothing(s) == s

\* str.strip() on the strings the model uses: " " is a whitespace-only text
Strip(s) == IF s = " " THEN "" ELSE s

\* Python truthiness of an Optional[str] / str value
Falsy(v) == v \in {None, ""}

VARIABLES
    tasks,      \* TaskManager.tasks: task id -> TaskData
    uuid4,      \* the ids uuid.uuid4() is still to return, in order
    calls,      \* bag of the coroutines suspended at an await
    ops,        \* stage requests made so far
    response,   \* what the query handler of main.py answered in this step,
                \* or the error a stage call raised in it
    unhandled,  \* exceptions of background jobs nobody retrieved: they
                \* reach the event loop's exception handler
    returned,   \* the last call of a helper of the remote-queue client:
                \* its name, its argument and what it returned or raised
    poll,       \* a wait_for_outputs call of the remote-queue client: its
                \* position, its locals and the monotonic clock
    comfy       \* the local runner: the ComfyUIService object, its jobs and
                \* their worker threads, the process working directory and
                \* the run directories on disk

vars ==
    <<tasks, uuid4, calls, ops, response, unhandled, returned, poll, comfy>>

\* the state of the task manager and of the event loop
manager == <<tasks, uuid4, calls, ops, response, unhandled>>
\* the state of the service objects, which the task manager's own code never
\* touches
services == <<returned, poll, comfy>>
\* what the stage coroutines and handlers of the task manager never touch
side == <<unhandled, services>>

\* no helper of the remote-queue client has been called
NotCalled == [fn |-> "none"]
\* no wait_for_outputs call has been made
NotWaiting == [pc |-> "idle"]
\* the local runner before its first job: the lock free, the process in the
\* directory it was started in, no run directory on disk, nothing cached,
\* no input file staged
Jobs       == 1..MaxJobs
StartCwd   == "backend"
NoJob      == [pc |-> "idle", thread |-> "none", previous_cwd |-> None,
               result |-> None, own |-> {}, files |-> {}]
ComfyUIService ==
    [locked |-> FALSE, cwd |-> StartCwd, disk |-> {}, run_cache |-> {},
     staged |-> {}, jobs |-> [j \in Jobs |-> NoJob]]

\* the ids a request can name: the one create_task hands out, and one it
\* never hands out
TaskIds == {"task_a", "task_z"}

\* models.TaskData with its defaults.  Left out are the fields no branch of
\* the program reads: task_id (the key of `tasks`), video_provider, the
\* image_prompt_* echoes, seedream_reference_image_url and the provider job
\* ids.
TaskData ==
    [status |-> PENDING, progress |-> 0, current_step |-> "",
     error |-> None, error_code |-> None,
     scene_images |-> <<>>, portrait_image |-> None,
     product_name |-> "", core_selling_points |-> "",
     language |-> "zh", script_mode |-> "manual", voice_text |-> "",
     person_prompt |-> "", action_text |-> "",
     platform |-> "tiktok",
     tts_engine_used |-> None, final_audio_url |-> None,
     audio_duration_sec |-> NoNumber,
     duration_mode |-> "follow_audio", fixed_duration_sec |-> NoNumber,
     audio_source |-> "auto", aspect_ratio_applied |-> None,
     model_image_url |-> None, audio_url |-> None, video_url |-> None]

\* TaskManager.get_task: the record, or None
Exists(ts, id) == id \in DOMAIN ts

\* an update that reaches every record of the registry
update_task_every(ts, id, kw) ==
    IF ~Exists(ts, id) THEN ts
    ELSE [i \in DOMAIN ts |->
            [f \in DOMAIN ts[i] |->
                IF f \in DOMAIN kw THEN kw[f] ELSE ts[i][f]]]

\* TaskManager.update_task: set every named field the record has, skip the
\* others; an absent id changes nothing
update_task(ts, id, kw) ==
    IF ~Exists(ts, id) THEN ts
    ELSE [ts EXCEPT ![id] =
            [f \in DOMAIN @ |-> IF f \in DOMAIN kw THEN kw[f] ELSE @[f]]]

\* what TaskManager.update_task returns: False for an absent id (lines 59-61),
\* True otherwise (line 67)
update_task_returns(ts, id, kw) == Exists(ts, id)

\* a failure mark that makes a record for an id that has none
_fail_task_upsert(ts, id, code, message) ==
    update_task(IF Exists(ts, id) THEN ts ELSE ts @@ (id :> TaskData), id,
                [status |-> FAILED, current_step |-> "failed",
                 error |-> message, error_code |-> code])

\* TaskManager._fail_task
_fail_task(ts, id, code, message) ==
    update_task(ts, id, [status |-> FAILED, current_step |-> "failed",
                         error |-> message, error_code |-> code])

\* the event loop's suspended coroutines: one more, one fewer, one moved on
Suspended    == BagToSet(calls)
Spawn(c)     == calls (+) SetToBag({c})
Finish(c)    == calls (-) SetToBag({c})
\* a coroutine that goes on and is also started over
Moved_and_stays(c, c2) == calls (+) SetToBag({c2})
Moved(c, c2) == (calls (-) SetToBag({c})) (+) SetToBag({c2})

\* no query handler answered in this step and no stage call raised in it
NoResponse == [kind |-> "none"]
\* a stage call on task id ended in this step by raising to its caller: an
\* AppError(code, message), or an exception that is not an AppError (code None)
Raise(id, code, message) ==
    [kind |-> "raise", task |-> id, code |-> code, message |-> message]
\* Python None where a dict is expected
NoDict == [is_none |-> TRUE]

\* a stage request arrives from a client
Request == ops < MaxOps /\ ops' = ops + 1

Init ==
    /\ tasks = <<>>
    /\ uuid4 = <<"task_a">>
    /\ calls = EmptyBag
    /\ ops = 0
    /\ response = NoResponse
    /\ unhandled = {}
    /\ returned = NotCalled
    /\ poll = NotWaiting
    /\ comfy = ComfyUIService

\* TaskManager.create_task
create_task ==
    /\ uuid4 # <<>>
    /\ uuid4' = Tail(uuid4)
    /\ tasks' = tasks @@ (Head(uuid4) :> TaskData)
    /\ response' = NoResponse
    /\ UNCHANGED <<calls, ops>>
    /\ UNCHANGED side

\* TaskManager.delete_task
delete_task(id) ==
    /\ Exists(tasks, id)
    /\ tasks' = [i \in DOMAIN tasks \ {id} |-> tasks[i]]
    /\ response' = NoResponse
    /\ UNCHANGED <<uuid4, calls, ops>>
    /\ UNCHANGED side

\* ---------------------------------------------------------- upload_materials
SceneCounts   == {0, 3}               \* number of scene files in the request
PortraitBytes == {None, "jpg"}        \* portrait_image: absent, bytes
SceneUrl(i)   == IF i = 1 THEN "scene_url_0" ELSE "scene_url_1"
PortraitUrl   == "portrait_url"

Max(a, b) == IF a > b THEN a ELSE b

\* TaskManager.upload_materials up to its first await (lines 188-207); with
\* nothing to upload the coroutine never suspends and runs to its return
upload_materials(id, n, portrait) ==
    LET urls == [i \in 1..(IF n < 2 THEN n ELSE 2) |-> SceneUrl(i)]
        purl == IF Falsy(portrait) THEN None ELSE PortraitUrl
        t1   == update_task(tasks, id,
                    [status |-> UPLOADING, current_step |-> "upload",
                     progress |-> 10, error |-> None, error_code |-> None])
    IN
    /\ Request
    /\ IF ~Exists(tasks, id)
       THEN /\ response' = Raise(id, "TASK_NOT_FOUND", "not found")
            /\ UNCHANGED <<tasks, calls>>
       ELSE IF n = 0 /\ Falsy(portrait)
       THEN /\ tasks' = update_task(t1, id,
                           [scene_images |-> urls, portrait_image |-> purl,
                            progress |-> 30, current_step |-> "upload_done"])
            /\ response' = NoResponse
            /\ UNCHANGED calls
       ELSE /\ tasks' = t1
            /\ calls' = Spawn([kind |-> "upload", task |-> id, pc |-> "tos",
                 scene_urls |-> urls, portrait_url |-> purl])
            /\ response' = NoResponse
    /\ UNCHANGED uuid4
    /\ UNCHANGED side

\* upload_materials after its object-storage uploads (lines 208-232); the
\* storage client raises plain exceptions only (tos_service.py:34-50)
upload_materials_resume(c, ok) ==
    /\ c \in Suspended
    /\ c.kind = "upload"
    /\ tasks' = IF ok
                THEN update_task(tasks, c.task,
                        [scene_images |-> c.scene_urls,
                         portrait_image |-> c.portrait_url,
                         progress |-> 30, current_step |-> "upload_done"])
                ELSE _fail_task(tasks, c.task, "UPLOAD_FAILED", "exc")
    /\ calls' = Finish(c)
    /\ response' = IF ok THEN NoResponse ELSE Raise(c.task, None, "exc")
    /\ UNCHANGED <<uuid4, ops>>
    /\ UNCHANGED side

\* ----------------------------------------------------------- generate_script
\* (product_name, selling_points) pairs of the requests
ScriptInputs   == {<<"", "">>, <<" ", " ">>, <<"Acme", " ">>}
LanguageInputs == {"zh", "fr"}        \* "fr" is not a LanguageEnum value
LlmScripts     == {"v1"}              \* answers of generate_voice_script

\* the record update generate_script makes before it asks the language
\* model (lines 255-266)
script_stage_started(ts, id, product, points, language) ==
    update_task(ts, id,
        [status |-> GENERATING_SCRIPT, current_step |-> "script",
         progress |-> 35, product_name |-> product,
         core_selling_points |-> points,
         language |-> language, script_mode |-> "llm",
         error |-> None, error_code |-> None])

\* a script stage that keeps a voice text the task already has
script_stage_done_keeps_prior(ts, id, voice_text) ==
    IF Exists(ts, id) /\ ts[id].voice_text # ""
    THEN update_task(ts, id, [progress |-> 50,
                              current_step |-> "script_done"])
    ELSE update_task(ts, id, [voice_text |-> voice_text, progress |-> 50,
                              current_step |-> "script_done"])

\* the record update generate_script makes with the language model's answer
\* (lines 276-281)
script_stage_done(ts, id, voice_text) ==
    update_task(ts, id, [voice_text |-> voice_text, progress |-> 50,
                         current_step |-> "script_done"])

\* TaskManager.generate_script up to its await of the language model
\* (lines 241-269)
generate_script(id, product_name, selling_points, language) ==
    LET normalized_product == Strip(product_name)
        normalized_points  == Strip(selling_points)
    IN
    /\ Request
    /\ IF ~Exists(tasks, id)
       THEN /\ response' = Raise(id, "TASK_NOT_FOUND", "not found")
            /\ UNCHANGED <<tasks, calls>>
       ELSE IF language \notin LanguageEnum
       THEN /\ response' = Raise(id, "INVALID_LANGUAGE", "language")
            /\ UNCHANGED <<tasks, calls>>
       ELSE IF normalized_product = "" /\ normalized_points = ""
       THEN /\ response' = Raise(id, "SCRIPT_INPUT_REQUIRED", "inputs")
            /\ UNCHANGED <<tasks, calls>>
       ELSE /\ response' = NoResponse
            /\ tasks' = script_stage_started(tasks, id, normalized_product,
                                             normalized_points, language)
            /\ calls' = Spawn([kind |-> "script", task |-> id, pc |-> "llm"])
    /\ UNCHANGED uuid4
    /\ UNCHANGED side

\* generate_script after the language model answered or raised (lines
\* 269-293); generate_voice_script raises plain exceptions only
\* (llm_service.py:29-58)
generate_script_resume(c, ok, voice_text) ==
    /\ c \in Suspended
    /\ c.kind = "script"
    /\ tasks' = IF ok
                THEN script_stage_done(tasks, c.task, voice_text)
                ELSE _fail_task(tasks, c.task, "SCRIPT_GENERATION_FAILED",
                                "exc")
    /\ calls' = Finish(c)
    /\ response' = IF ok THEN NoResponse ELSE Raise(c.task, None, "exc")
    /\ UNCHANGED <<uuid4, ops>>
    /\ UNCHANGED side

\* ------------------------------------------------------------ generate_audio
AudioLanguages == {None, "fr"}        \* language: omitted, unsupported
TextOverrides  == {None, " ", "v2"}   \* voice_text_override
ReferenceAudio == {None, "wav"}       \* reference_audio_bytes
AudioDurations == {3}                 \* _audio_duration: seconds probed
\* settings.tts_generation_timeout_sec as generate_audio reads it (line 341,
\* after its input checks): 0 (the default: wait without limit) or a number
\* of seconds
TimeoutSettings == {0, 30}
AudioUrl       == "audio_url"
\* how the awaited speech job and the upload after it can end: a result, the
\* overall timeout, an AppError of the speech service, any other exception
TtsOutcomes    == {"ok", "timeout", "RUNNINGHUB_TASK_FAILED", "Exception"}

\* a script check that lets every request pass
script_text_missing_never(text) == FALSE

\* the script check of TaskManager.generate_audio (lines 324-326), on the
\* stripped voice_text of the refreshed record
script_text_missing(text) == text = ""

\* a reference check that lets every request pass
reference_audio_missing_never(reference_audio_bytes) == FALSE

\* the reference check of TaskManager.generate_audio (line 327)
reference_audio_missing(reference_audio_bytes) == reference_audio_bytes = None

\* settings.mega_tts_default_reference_audio_path (default_ref below): ""
\* when not set, "missing.wav" for a path with no file behind it,
\* "default.wav" for a path to a readable file
\* MegaTTS3Service.generate_audio up to its first await (lines 25-39): the
\* error it raises, or "upload_file" when it goes on to contact the remote
\* queue
MegaTTS3Service_generate_audio(text, reference_audio_bytes, default_ref) ==
    LET final_text == Strip(text)
        reference  == IF reference_audio_bytes = None
                         /\ Strip(default_ref) = "default.wav"
                      THEN "default_bytes"
                      ELSE reference_audio_bytes
    IN IF final_text = "" THEN "MEGA_TTS3_FAILED"
       ELSE IF reference = None THEN "MEGA_TTS3_REFERENCE_AUDIO_REQUIRED"
       ELSE "upload_file"

\* TaskManager.generate_audio up to its wait for the speech job
\* (lines 304-350)
generate_audio(id, language, voice_text_override, reference_audio_bytes) ==
    /\ Request
    /\ IF ~Exists(tasks, id)
       THEN /\ response' = Raise(id, "TASK_NOT_FOUND", "not found")
            /\ UNCHANGED <<tasks, calls>>
       ELSE
       LET task == tasks[id]
           target_language == IF Falsy(language) THEN task.language
                              ELSE language
           patched_text == Strip(voice_text_override)
           script_mode  == IF task.script_mode # "llm" THEN "manual"
                           ELSE task.script_mode
           t1 == IF voice_text_override # None
                 THEN update_task(tasks, id, [voice_text |-> patched_text,
                                              script_mode |-> script_mode])
                 ELSE tasks
           text == Strip(t1[id].voice_text)
       IN
       IF target_language \notin LanguageEnum
       THEN /\ response' = Raise(id, "INVALID_LANGUAGE", "language")
            /\ UNCHANGED <<tasks, calls>>
       ELSE IF voice_text_override # None /\ patched_text = ""
       THEN /\ response' = Raise(id, "MEGA_TTS3_FAILED", "empty override")
            /\ UNCHANGED <<tasks, calls>>
       ELSE IF script_text_missing(text)
       THEN /\ response' = Raise(id, "MEGA_TTS3_FAILED", "no script")
            /\ tasks' = t1
            /\ UNCHANGED calls
       ELSE IF reference_audio_missing(reference_audio_bytes)
       THEN /\ response' = Raise(id, "MEGA_TTS3_REFERENCE_AUDIO_REQUIRED",
                                  "no reference")
            /\ tasks' = t1
            /\ UNCHANGED calls
       ELSE /\ response' = NoResponse
            /\ tasks' = update_task(t1, id,
                  [status |-> GENERATING_AUDIO, current_step |-> "audio",
                   progress |-> 60, language |-> target_language,
                   error |-> None, error_code |-> None])
            /\ \E timeout_sec \in TimeoutSettings :
                 calls' = Spawn([kind |-> "audio", task |-> id, pc |-> "tts",
                                 timeout_sec |-> timeout_sec])
    /\ UNCHANGED uuid4
    /\ UNCHANGED side

\* generate_audio from the end of its wait to its return or raise
\* (lines 350-400)
generate_audio_resume(c, outcome, audio_duration) ==
    /\ c \in Suspended
    /\ c.kind = "audio" /\ c.pc = "tts"
    /\ outcome = "timeout" => c.timeout_sec > 0
    /\ tasks' =
         CASE outcome = "ok" ->
                update_task(tasks, c.task,
                   [status |-> AUDIO_READY, current_step |-> "audio_ready",
                    progress |-> 72, audio_url |-> AudioUrl,
                    final_audio_url |-> AudioUrl,
                    audio_duration_sec |-> Some(audio_duration),
                    tts_engine_used |-> MEGA_TTS3,
                    audio_source |-> "existing_generated"])
           [] outcome = "timeout" ->
                _fail_task(tasks, c.task, "MEGA_TTS3_TIMEOUT", "timeout")
           [] outcome = "Exception" ->
                _fail_task(tasks, c.task, "MEGA_TTS3_FAILED", "exc")
           [] OTHER ->
                _fail_task(tasks, c.task, outcome, "app error")
    /\ calls' = IF outcome = "timeout"
                THEN Moved(c, [kind |-> "audio", task |-> c.task,
                               pc |-> "cancelled"])
                ELSE Finish(c)
    /\ response' =
         CASE outcome = "ok"        -> NoResponse
           [] outcome = "timeout"   ->
                Raise(c.task, "MEGA_TTS3_TIMEOUT", "timeout")
           [] outcome = "Exception" -> Raise(c.task, "MEGA_TTS3_FAILED", "exc")
           [] OTHER                 -> Raise(c.task, outcome, "app error")
    /\ UNCHANGED <<uuid4, ops, unhandled>>
    /\ UNCHANGED services

\* how a speech job that was cancelled at a timeout can still end: cancelled,
\* with a result it had ready, with an AppError or another exception
AbandonedOutcomes == {"CancelledError", "ok", "RUNNINGHUB_TASK_FAILED",
                      "Exception"}

\* a done callback that does not consume what the job raised
_drain_background_task_result_only(outcome) ==
    IF outcome = "ok" THEN {} ELSE {outcome}

\* TaskManager._drain_background_task: the exceptions that leave the callback
\* once it has asked the finished job for its result
_drain_background_task(outcome) == {}

\* an abandoned speech job whose result is stored on the task after all
speech_job_done_writes(c, outcome) ==
    /\ c \in Suspended
    /\ c.kind = "audio" /\ c.pc = "cancelled"
    /\ unhandled' = unhandled \cup _drain_background_task(outcome)
    /\ calls' = Finish(c)
    /\ response' = NoResponse
    /\ tasks' = IF outcome = "ok"
                THEN update_task(tasks, c.task,
                        [status |-> AUDIO_READY, audio_url |-> AudioUrl,
                         final_audio_url |-> AudioUrl])
                ELSE tasks
    /\ UNCHANGED <<uuid4, ops>>
    /\ UNCHANGED services

\* the speech job abandoned at a timeout ends, at a later turn of the event
\* loop, and its done callback runs (lines 352-353 and 42-48); an exception
\* that leaves the callback is reported by the event loop
speech_job_done(c, outcome) ==
    /\ c \in Suspended
    /\ c.kind = "audio" /\ c.pc = "cancelled"
    /\ unhandled' = unhandled \cup _drain_background_task(outcome)
    /\ calls' = Finish(c)
    /\ response' = NoResponse
    /\ UNCHANGED <<tasks, uuid4, ops>>
    /\ UNCHANGED services

\* ---------------------------------------------------------- start_generation
\* (platform, duration_mode, fixed_duration_sec) of the requests
StartInputs == {<<"tiktok", "follow_audio", NoNumber>>,
                <<"instagram", "fixed", Some(2)>>,
                <<"youtube", "follow_audio", NoNumber>>,
                <<"tiktok", "twice", NoNumber>>,
                <<"tiktok", "fixed", NoNumber>>,
                <<"tiktok", "fixed", Some(0)>>}

\* a request check that accepts any duration that is given
start_request_invalid_lax(platform, duration_mode, fixed_duration_sec) ==
    \/ platform \notin PlatformEnum
    \/ duration_mode \notin DurationModeEnum
    \/ duration_mode = "fixed" /\ fixed_duration_sec = NoNumber

\* the request checks of start_generation (lines 418-434): whether one of
\* them raises INVALID_REQUEST
start_request_invalid(platform, duration_mode, fixed_duration_sec) ==
    \/ platform \notin PlatformEnum
    \/ duration_mode \notin DurationModeEnum
    \/ /\ duration_mode = "fixed"
       /\ (fixed_duration_sec = NoNumber \/ fixed_duration_sec[1] <= 0)

\* TaskManager.start_generation (lines 409-447): it has no await, and the
\* background run it creates starts at a later turn of the event loop
start_generation(id, platform, duration_mode, fixed_duration_sec) ==
    /\ Request
    /\ IF ~Exists(tasks, id)
       THEN /\ response' = Raise(id, "TASK_NOT_FOUND", "not found")
            /\ UNCHANGED <<tasks, calls>>
       ELSE
       LET task == tasks[id]
           fixed_sec == IF duration_mode = "fixed" THEN fixed_duration_sec
                        ELSE NoNumber
       IN
       IF Falsy(task.voice_text)
       THEN /\ response' = Raise(id, "SCRIPT_REQUIRED", "no script")
            /\ UNCHANGED <<tasks, calls>>
       ELSE IF Falsy(task.final_audio_url)
       THEN /\ response' = Raise(id, "AUDIO_REQUIRED", "no audio")
            /\ UNCHANGED <<tasks, calls>>
       ELSE IF start_request_invalid(platform, duration_mode,
                                     fixed_duration_sec)
       THEN /\ response' = Raise(id, "INVALID_REQUEST", "request")
            /\ UNCHANGED <<tasks, calls>>
       ELSE /\ response' = NoResponse
            /\ tasks' = update_task(tasks, id,
                  [platform |-> platform, duration_mode |-> duration_mode,
                   fixed_duration_sec |-> fixed_sec,
                   error |-> None, error_code |-> None])
            /\ calls' = Spawn([kind |-> "run", task |-> id, pc |-> "created"])
    /\ UNCHANGED uuid4
    /\ UNCHANGED side

\* ----------------------------------------------------------- _run_generation
ModelImageUrl == "model_image_url"
VideoUrl      == "video_url"
\* how an awaited collaborator of the run can end: a result, an AppError
\* (by its code), any other exception
PromptOutcomes   == {"ok", "PROMPT_FIELD_EXTRACTION_FAILED", "Exception"}
ImageOutcomes    == {"ok", "Exception"}
DownloadOutcomes == {"ok", "VIDEO_GENERATION_FAILED", "Exception"}
VideoOutcomes    == {"ok", "RUNNINGHUB_TASK_FAILED", "Exception"}

\* InfinitetalkService._aspect_ratio_for_platform
_aspect_ratio_for_platform(platform) ==
    IF platform = "tiktok" THEN "9:16"
    ELSE IF platform = "instagram" THEN "1:1"
    ELSE None

\* InfinitetalkService.FPS
FPS == 25

\* a frame count that ignores the seconds asked for
_fixed_num_frames_default(fixed_duration_sec) == 12 * FPS

\* InfinitetalkService._fixed_num_frames; `x or 12` is 12 for 0
_fixed_num_frames(fixed_duration_sec) ==
    Max(1, IF fixed_duration_sec = 0 THEN 12 ELSE fixed_duration_sec) * FPS

\* the num_frames entry generate_video puts into the job's node list (lines
\* 79-86): a frame count in FIXED mode, NoNumber when it adds no entry
num_frames_override(duration_mode, fixed_duration_sec) ==
    IF duration_mode = "fixed"
    THEN Some(_fixed_num_frames(fixed_duration_sec))
    ELSE NoNumber

\* `refreshed_task.fixed_duration_sec or 12` (task_manager.py:547)
fixed_duration_sec_or_12(fixed_duration_sec) ==
    IF fixed_duration_sec = NoNumber \/ fixed_duration_sec[1] = 0 THEN 12
    ELSE fixed_duration_sec[1]

\* an audio resolution that makes up an audio of its own when none is stored
_resolve_audio_for_video_synthesized(task) ==
    IF Falsy(task.final_audio_url)
    THEN [ok |-> TRUE, value |-> "synthesized_audio_url"]
    ELSE [ok |-> TRUE, value |-> task.final_audio_url]

\* TaskManager._resolve_audio_for_video: the stored final audio URL, or the
\* AppError AUDIO_REQUIRED
_resolve_audio_for_video(task) ==
    IF Falsy(task.final_audio_url)
    THEN [ok |-> FALSE, value |-> "AUDIO_REQUIRED"]
    ELSE [ok |-> TRUE, value |-> task.final_audio_url]

\* a run whose except clauses swallow the error instead of failing the task
run_failed_swallowed(ts, id, outcome) == ts

\* the except clauses of _run_generation (lines 570-573)
run_failed(ts, id, outcome) ==
    IF outcome = "Exception"
    THEN _fail_task(ts, id, "VIDEO_GENERATION_FAILED", "exc")
    ELSE _fail_task(ts, id, outcome, "app error")

\* a materials check that looks at the portrait only
run_materials_error_portrait_only(task) ==
    IF Falsy(task.portrait_image) THEN "PORTRAIT_IMAGE_REQUIRED" ELSE None

\* the materials checks of _run_generation (lines 472-478): the code of the
\* AppError raised, or None
run_materials_error(task) ==
    IF Falsy(task.portrait_image) THEN "PORTRAIT_IMAGE_REQUIRED"
    ELSE IF Len(task.scene_images) = 0 \/ Strip(task.scene_images[1]) = ""
    THEN "SCENE_IMAGE_REQUIRED"
    ELSE None

\* _run_generation from its start to its await of the prompt model
\* (lines 459-483)
run_start(c) ==
    /\ c \in Suspended
    /\ c.kind = "run" /\ c.pc = "created"
    /\ response' = NoResponse
    /\ IF ~Exists(tasks, c.task)
       THEN /\ calls' = Finish(c)
            /\ UNCHANGED tasks
       ELSE
       LET t1   == update_task(tasks, c.task,
                      [status |-> GENERATING_IMAGE, current_step |-> "image",
                       progress |-> 55])
           task == t1[c.task]
       IN
       IF run_materials_error(task) # None
       THEN /\ tasks' = run_failed(t1, c.task, run_materials_error(task))
            /\ calls' = Finish(c)
       ELSE /\ tasks' = t1
            /\ calls' = Moved(c, [c EXCEPT !.pc = "llm"])
    /\ UNCHANGED <<uuid4, ops>>
    /\ UNCHANGED side

\* the run from the prompt model's answer to its await of the image model
\* (lines 479-504)
run_after_prompt(c, outcome) ==
    /\ c \in Suspended
    /\ c.kind = "run" /\ c.pc = "llm"
    /\ response' = NoResponse
    /\ IF outcome # "ok"
       THEN /\ tasks' = run_failed(tasks, c.task, outcome)
            /\ calls' = Finish(c)
       ELSE
       LET t1 == update_task(tasks, c.task,
                    [person_prompt |-> "person", action_text |-> "action"])
       IN
       IF ~Exists(t1, c.task)
       THEN /\ tasks' = run_failed(t1, c.task, "TASK_NOT_FOUND")
            /\ calls' = Finish(c)
       ELSE /\ tasks' = t1
            /\ calls' = Moved(c, [c EXCEPT !.pc = "ark"])
    /\ UNCHANGED <<uuid4, ops>>
    /\ UNCHANGED side

\* the run from the image model's answer to its first download
\* (lines 500-535)
run_after_image(c, outcome) ==
    /\ c \in Suspended
    /\ c.kind = "run" /\ c.pc = "ark"
    /\ response' = NoResponse
    /\ IF outcome # "ok"
       THEN /\ tasks' = run_failed(tasks, c.task, outcome)
            /\ calls' = Finish(c)
       ELSE
       LET t1 == update_task(tasks, c.task,
                    [model_image_url |-> ModelImageUrl, progress |-> 70])
           t2 == update_task(t1, c.task,
                    [current_step |-> "prepare_audio", progress |-> 73])
       IN
       IF ~Exists(t2, c.task)
       THEN /\ tasks' = run_failed(t2, c.task, "TASK_NOT_FOUND")
            /\ calls' = Finish(c)
       ELSE IF ~_resolve_audio_for_video(t2[c.task]).ok
       THEN /\ tasks' = run_failed(t2, c.task,
                                   _resolve_audio_for_video(t2[c.task]).value)
            /\ calls' = Finish(c)
       ELSE
       LET final_audio_url == _resolve_audio_for_video(t2[c.task]).value
           t3 == update_task(t2, c.task,
                    [status |-> GENERATING_VIDEO, current_step |-> "video",
                     progress |-> 80, final_audio_url |-> final_audio_url])
       IN
       IF Falsy(t3[c.task].model_image_url)
       THEN /\ tasks' = run_failed(t3, c.task, "VIDEO_GENERATION_FAILED")
            /\ calls' = Finish(c)
       ELSE /\ tasks' = t3
            /\ calls' = Moved(c, [kind |-> "run", task |-> c.task,
                                  pc |-> "download",
                                  final_audio_url |-> final_audio_url])
    /\ UNCHANGED <<uuid4, ops>>
    /\ UNCHANGED side

\* the run from its downloads to its await of the video job (lines 535-547):
\* the job's parameters are read when generate_video is called, from the
\* record the run holds; once the task is deleted that record is out of the
\* registry and keeps the values it had, which start_generation had accepted
run_after_download(c, outcome) ==
    /\ c \in Suspended
    /\ c.kind = "run" /\ c.pc = "download"
    /\ response' = NoResponse
    /\ IF outcome # "ok"
       THEN /\ tasks' = run_failed(tasks, c.task, outcome)
            /\ calls' = Finish(c)
       ELSE /\ UNCHANGED tasks
            /\ \E in \in StartInputs :
                 /\ in[1] \in PlatformEnum /\ in[2] \in DurationModeEnum
                 /\ in[2] = "fixed" => (in[3] # NoNumber /\ in[3][1] > 0)
                 /\ Exists(tasks, c.task) =>
                      /\ in[1] = tasks[c.task].platform
                      /\ in[2] = tasks[c.task].duration_mode
                      /\ in[3] = tasks[c.task].fixed_duration_sec
                 /\ calls' = Moved(c, [kind |-> "run", task |-> c.task,
                       pc |-> "video",
                       final_audio_url |-> c.final_audio_url,
                       platform |-> in[1], duration_mode |-> in[2],
                       fixed_duration_sec |-> in[3],
                       num_frames |-> num_frames_override(in[2],
                                         fixed_duration_sec_or_12(in[3]))])
    /\ UNCHANGED <<uuid4, ops>>
    /\ UNCHANGED side

\* the run from the video job's end to its own end (lines 538-573)
run_after_video(c, outcome) ==
    /\ c \in Suspended
    /\ c.kind = "run" /\ c.pc = "video"
    /\ response' = NoResponse
    /\ tasks' = IF outcome # "ok"
                THEN run_failed(tasks, c.task, outcome)
                ELSE update_task(tasks, c.task,
                        [status |-> COMPLETED, current_step |-> "done",
                         progress |-> 100, video_url |-> VideoUrl,
                         audio_url |-> c.final_audio_url,
                         final_audio_url |-> c.final_audio_url,
                         aspect_ratio_applied |->
                            _aspect_ratio_for_platform(c.platform),
                         error |-> None, error_code |-> None])
    /\ calls' = Finish(c)
    /\ UNCHANGED <<uuid4, ops>>
    /\ UNCHANGED side

\* ----------------------------------------------------------- status query
\* the result bundle of main.get_task_status (main.py:205-219)
StatusResult(task) ==
    [video_url |-> task.video_url, audio_url |-> task.audio_url,
     model_image_url |-> task.model_image_url,
     final_audio_url |-> task.final_audio_url,
     audio_duration_sec |-> task.audio_duration_sec,
     tts_engine_used |-> task.tts_engine_used,
     audio_source |-> task.audio_source,
     aspect_ratio_applied |-> task.aspect_ratio_applied]

\* a status query that builds the bundle for a finished task only
TaskStatusResponse_completed_only(id, task) ==
    [kind |-> "status", task_id |-> id, status |-> task.status,
     progress |-> task.progress, current_step |-> task.current_step,
     result |-> IF task.status \in {COMPLETED}
                THEN StatusResult(task) ELSE NoDict,
     error |-> task.error, error_code |-> task.error_code]

\* the TaskStatusResponse main.get_task_status builds (main.py:205-229)
TaskStatusResponse(id, task) ==
    [kind |-> "status", task_id |-> id, status |-> task.status,
     progress |-> task.progress, current_step |-> task.current_step,
     result |-> IF task.status \in {AUDIO_READY, COMPLETED}
                THEN StatusResult(task) ELSE NoDict,
     error |-> task.error, error_code |-> task.error_code]

\* main.get_task_status (main.py:199-229); a missing task is answered with
\* HTTP 404 and no TaskStatusResponse
get_task_status(id) ==
    /\ Exists(tasks, id)
    /\ response' = TaskStatusResponse(id, tasks[id])
    /\ UNCHANGED <<tasks, uuid4, calls, ops>>
    /\ UNCHANGED side

\* the DigitalHumanResult main.get_task_result builds (main.py:232-250)
DigitalHumanResult(id) ==
    [task_id |-> id, video_url |-> tasks[id].video_url,
     audio_url |-> tasks[id].audio_url,
     model_image_url |-> tasks[id].model_image_url,
     final_audio_url |-> tasks[id].final_audio_url,
     audio_duration_sec |-> tasks[id].audio_duration_sec,
     status |-> tasks[id].status, message |-> tasks[id].current_step]

Next ==
    \/ create_task
    \/ \E id \in TaskIds : delete_task(id)
    \/ \E id \in TaskIds, n \in SceneCounts, p \in PortraitBytes :
          upload_materials(id, n, p)
    \/ \E c \in Suspended, ok \in BOOLEAN : upload_materials_resume(c, ok)
    \/ \E id \in TaskIds, in \in ScriptInputs, l \in LanguageInputs :
          generate_script(id, in[1], in[2], l)
    \/ \E c \in Suspended, ok \in BOOLEAN, v \in LlmScripts :
          generate_script_resume(c, ok, v)
    \/ \E id \in TaskIds, l \in AudioLanguages, o \in TextOverrides,
          r \in ReferenceAudio :
          generate_audio(id, l, o, r)
    \/ \E c \in Suspended, o \in TtsOutcomes, d \in AudioDurations :
          generate_audio_resume(c, o, d)
    \/ \E c \in Suspended, o \in AbandonedOutcomes : speech_job_done(c, o)
    \/ \E id \in TaskIds, in \in StartInputs :
          start_generation(id, in[1], in[2], in[3])
    \/ \E c \in Suspended : run_start(c)
    \/ \E c \in Suspended, o \in PromptOutcomes : run_after_prompt(c, o)
    \/ \E c \in Suspended, o \in ImageOutcomes : run_after_image(c, o)
    \/ \E c \in Suspended, o \in DownloadOutcomes : run_after_download(c, o)
    \/ \E c \in Suspended, o \in VideoOutcomes : run_after_video(c, o)
    \/ \E id \in TaskIds : get_task_status(id)

Spec == Init /\ [][Next]_vars

\* ------------------------------------------------------- two tasks at once
\* the ids create_task hands out when it is called twice
PairIds == {"task_a", "task_b"}

\* the task manager before its first task, with two ids to hand out
InitPair ==
    /\ tasks = <<>>
    /\ uuid4 = <<"task_a", "task_b">>
    /\ calls = EmptyBag
    /\ ops = 0
    /\ response = NoResponse
    /\ unhandled = {}
    /\ returned = NotCalled
    /\ poll = NotWaiting
    /\ comfy = ComfyUIService

\* the operations of the task manager on two tasks, each request with well-
\* formed inputs
NextPair ==
    \/ create_task
    \/ \E id \in PairIds : delete_task(id)
    \/ \E id \in PairIds : upload_materials(id, 3, "jpg")
    \/ \E c \in Suspended : upload_materials_resume(c, TRUE)
    \/ \E id \in PairIds : generate_script(id, "Acme", " ", "zh")
    \/ \E c \in Suspended, ok \in BOOLEAN :
          generate_script_resume(c, ok, "v1")
    \/ \E id \in PairIds : generate_audio(id, None, "v2", "wav")
    \/ \E c \in Suspended, o \in {"ok", "timeout"} :
          generate_audio_resume(c, o, 3)
    \/ \E c \in Suspended : speech_job_done(c, "CancelledError")
    \/ \E id \in PairIds :
          start_generation(id, "tiktok", "follow_audio", NoNumber)
    \/ \E c \in Suspended : run_start(c)
    \/ \E c \in Suspended : run_after_prompt(c, "ok")
    \/ \E c \in Suspended, o \in {"ok", "Exception"} : run_after_image(c, o)
    \/ \E c \in Suspended : run_after_download(c, "ok")
    \/ \E c \in Suspended, o \in {"ok", "Exception"} : run_after_video(c, o)

\* the task manager serving two tasks
SpecPair == InitPair /\ [][NextPair]_vars

\* ============================================ RunningHubService: helpers
\* The strings these helpers take apart are sequences of one-character
\* strings.
Digits     == {"0", "1", "2", "3", "4", "5", "6", "7", "8", "9"}
Whitespace == {" "}

\* what a helper call gave its caller: a value, or an AppError by its code
Returns(value) == [raised |-> None, value |-> value]
Raises(code)   == [raised |-> code, value |-> <<>>]

\* str.strip()
str_strip(s) ==
    LET keep == {i \in 1..Len(s) : s[i] \notin Whitespace}
    IN IF keep = {} THEN <<>>
       ELSE SubSeq(s, CHOOSE i \in keep : \A j \in keep : i <= j,
                      CHOOSE i \in keep : \A j \in keep : i >= j)

\* str.isdigit()
str_isdigit(s) == Len(s) > 0 /\ \A i \in 1..Len(s) : s[i] \in Digits

\* the match of the greedy pattern \d+ that starts at position i of s, where
\* s[i] is a digit
DigitRun(s, i) ==
    LET stop == CHOOSE k \in i..Len(s) :
                   /\ \A j \in i..k : s[j] \in Digits
                   /\ k = Len(s) \/ s[k + 1] \notin Digits
    IN SubSeq(s, i, stop)

WorkflowPath == <<"/", "w", "o", "r", "k", "f", "l", "o", "w", "/">>

\* a search that never finds the pattern
re_search_workflow_never(s) == [found |-> FALSE, group1 |-> <<>>]

\* re.search(r"/workflow/(\d+)", s): whether there is a match, and group 1 of
\* the leftmost one
re_search_workflow(s) ==
    LET n  == Len(WorkflowPath)
        at == {i \in 1..Len(s) :
                 /\ i + n <= Len(s)
                 /\ SubSeq(s, i, i + n - 1) = WorkflowPath
                 /\ s[i + n] \in Digits}
    IN IF at = {} THEN [found |-> FALSE, group1 |-> <<>>]
       ELSE LET i == CHOOSE k \in at : \A j \in at : k <= j
            IN [found |-> TRUE, group1 |-> DigitRun(s, i + n)]

\* re.findall(r"\d+", s): the maximal runs of digits, left to right
re_findall_digits(s) ==
    LET from[i \in 1..(Len(s) + 1)] ==
            IF i > Len(s) THEN <<>>
            ELSE IF s[i] \in Digits
                 THEN LET run == DigitRun(s, i)
                      IN <<run>> \o from[i + Len(run)]
                 ELSE from[i + 1]
    IN from[1]

\* a resolution that takes the first run of digits
_resolve_workflow_id_first_run(workflow_id_or_url) ==
    LET raw    == str_strip(workflow_id_or_url)
        digits == re_findall_digits(raw)
    IN IF digits = <<>> THEN Raises("RUNNINGHUB_CONFIG_ERROR")
       ELSE Returns(digits[1])

\* RunningHubService._resolve_workflow_id (lines 40-56)
_resolve_workflow_id(workflow_id_or_url) ==
    LET raw    == str_strip(workflow_id_or_url)
        match  == re_search_workflow(raw)
        digits == re_findall_digits(raw)
    IN IF raw = <<>> THEN Raises("RUNNINGHUB_CONFIG_ERROR")
       ELSE IF str_isdigit(raw) THEN Returns(raw)
       ELSE IF match.found THEN Returns(match.group1)
       ELSE IF digits # <<>> THEN Returns(digits[Len(digits)])
       ELSE Raises("RUNNINGHUB_CONFIG_ERROR")

\* "https://x/workflow/123456", "123456", "wf-123456-v2"
RefUrl    == <<"h", "t", "t", "p", "s", ":", "/", "/", "x">> \o WorkflowPath
                \o <<"1", "2", "3", "4", "5", "6">>
RefDigits == <<"1", "2", "3", "4", "5", "6">>
RefTagged == <<"w", "f", "-", "1", "2", "3", "4", "5", "6", "-", "v", "2">>

\* "/workflow/1/workflow/2"
RefTwoPaths == WorkflowPath \o <<"1">> \o WorkflowPath \o <<"2">>

\* the workflow references tried: the four above, every string of up to
\* MaxLen characters of RefAlphabet, and "/workflow/" after at most one such
\* character and in front of up to MaxLen of them
RefAlphabet == {"1", "2", "w", "/", " "}
Strings(alphabet, n) == UNION {[1..k -> alphabet] : k \in 0..n}
WorkflowRefs ==
    {RefUrl, RefDigits, RefTagged, RefTwoPaths}
      \cup Strings(RefAlphabet, MaxLen)
      \cup {a \o WorkflowPath \o b :
               a \in Strings(RefAlphabet, 1),
               b \in Strings(RefAlphabet, MaxLen)}
      \cup {<<"7">> \o WorkflowPath \o <<"w">> \o WorkflowPath
                \o <<"8", "9", "w">>}

\* some caller resolves a workflow reference (create_task, line 118)
resolve_workflow_id(workflow_id_or_url) ==
    /\ returned = NotCalled
    /\ returned' = [fn |-> "_resolve_workflow_id",
                    arg |-> workflow_id_or_url,
                    out |-> _resolve_workflow_id(workflow_id_or_url)]
    /\ UNCHANGED <<manager, poll, comfy>>

\* str.lower() on the letters the model's strings have in upper case
UpperCase == <<"M", "O", "V">>
LowerCase == <<"m", "o", "v">>
str_lower(s) ==
    [i \in 1..Len(s) |->
        IF \E k \in 1..Len(UpperCase) : s[i] = UpperCase[k]
        THEN LowerCase[CHOOSE k \in 1..Len(UpperCase) : s[i] = UpperCase[k]]
        ELSE s[i]]

\* str.endswith(suffix)
str_endswith(s, suffix) ==
    /\ Len(s) >= Len(suffix)
    /\ SubSeq(s, Len(s) - Len(suffix) + 1, Len(s)) = suffix

\* the file types and URL endings the two pickers look for (lines 233-235
\* and 244-246)
AudioFileTypes == {<<"m", "p", "3">>, <<"w", "a", "v">>,
                   <<"f", "l", "a", "c">>, <<"m", "4", "a">>,
                   <<"o", "g", "g">>}
AudioUrlEndings == {<<".", "m", "p", "3">>, <<".", "w", "a", "v">>,
                    <<".", "f", "l", "a", "c">>, <<".", "m", "4", "a">>,
                    <<".", "o", "g", "g">>}
VideoFileTypes == {<<"m", "p", "4">>, <<"m", "o", "v">>,
                   <<"w", "e", "b", "m">>, <<"m", "k", "v">>}
VideoUrlEndings == {<<".", "m", "p", "4">>, <<".", "m", "o", "v">>,
                    <<".", "w", "e", "b", "m">>, <<".", "m", "k", "v">>}

\* an Optional[Dict] result: NoOutput is None, Some(output) an output
NoOutput == <<>>

\* the index of the first output the loop of a picker returns at, 0 if it
\* runs to its end
FirstMatch(outputs, file_types, url_endings) ==
    LET hit(output) ==
            LET file_type == str_lower(output.fileType)
                file_url  == str_lower(output.fileUrl)
            IN \/ file_type \in file_types
               \/ \E ext \in url_endings : str_endswith(file_url, ext)
        hits == {i \in 1..Len(outputs) : hit(outputs[i])}
    IN IF hits = {} THEN 0 ELSE CHOOSE i \in hits : \A j \in hits : i <= j

\* RunningHubService.pick_first_audio_output (lines 228-237)
pick_first_audio_output(outputs) ==
    LET i == FirstMatch(outputs, AudioFileTypes, AudioUrlEndings)
    IN IF i # 0 THEN Some(outputs[i])
       ELSE IF Len(outputs) = 1 THEN Some(outputs[1]) ELSE NoOutput

\* RunningHubService.pick_first_video_output (lines 239-248)
pick_first_video_output(outputs) ==
    LET i == FirstMatch(outputs, VideoFileTypes, VideoUrlEndings)
    IN IF i # 0 THEN Some(outputs[i]) ELSE NoOutput

\* output descriptors of a finished job: fileType absent, "png", "mp3",
\* "mp4"; fileUrl absent, "a.png", "a.ogg", "a.MOV"
OutputFileTypes == {<<>>, <<"p", "n", "g">>, <<"m", "p", "3">>,
                    <<"m", "p", "4">>}
OutputFileUrls  == {<<>>, <<"a", ".", "p", "n", "g">>,
                    <<"a", ".", "o", "g", "g">>, <<"a", ".", "M", "O", "V">>}
OutputDescriptors == [fileType : OutputFileTypes, fileUrl : OutputFileUrls]
OutputLists == UNION {[1..k -> OutputDescriptors] : k \in 0..MaxOutputs}

\* MegaTTS3Service.generate_audio picks the audio of a finished job
\* (mega_tts3_service.py:75)
audio_output_picked(outputs) ==
    /\ returned = NotCalled
    /\ returned' = [fn |-> "pick_first_audio_output", arg |-> outputs,
                    out |-> Returns(pick_first_audio_output(outputs))]
    /\ UNCHANGED <<manager, poll, comfy>>

\* InfinitetalkService.generate_video picks the video of a finished job
\* (infinitetalk_service.py:99)
video_output_picked(outputs) ==
    /\ returned = NotCalled
    /\ returned' = [fn |-> "pick_first_video_output", arg |-> outputs,
                    out |-> Returns(pick_first_video_output(outputs))]
    /\ UNCHANGED <<manager, poll, comfy>>

NextClient ==
    \/ \E ref \in WorkflowRefs : resolve_workflow_id(ref)
    \/ \E outputs \in OutputLists : audio_output_picked(outputs)
    \/ \E outputs \in OutputLists : video_output_picked(outputs)

\* one call of a helper of the remote-queue client, with every input above
SpecClient == Init /\ [][NextClient]_vars

\* ================================== RunningHubService.wait_for_outputs
\* Time is in whole seconds of time.monotonic(), counted from the call.
RUNNING_CODES == {804, 813}
FAILED_CODE   == 805

\* timeout_sec of the callers: integers (mega_tts3_service.py:69-72,
\* infinitetalk_service.py:97)
TimeoutSecs == {-1, 0, 1, 3, 5}
\* settings.runninghub_poll_interval_sec
PollIntervalSettings == {0, 1, 2, 4, 5}
\* seconds a status query takes, and seconds asyncio.sleep returns late
QueryDurations == {0, 1}
SleepLateness  == {0, 1}
\* items of a data list: an output descriptor (a dict), anything else
OutputItem == [is_dict |-> TRUE, fileType |-> "mp4"]
\* data lists of a code-0 answer: empty, one descriptor, a descriptor after
\* an item that is not a dict
DataLists ==
    {<<>>, <<OutputItem>>,
     <<[is_dict |-> FALSE, fileType |-> ""], OutputItem>>}
\* bodies the status query answers with: code 0 with a list or without,
\* a running code, the failed code, an unknown code
QueryBodies ==
    [code : {0}, data_is_list : {TRUE}, data : DataLists]
      \cup [code : {0} \cup RUNNING_CODES \cup {FAILED_CODE, 999},
            data_is_list : {FALSE}, data : {<<>>}]

\* RunningHubService.__init__ (line 24)
poll_interval_sec(setting) == Max(1, setting)

\* a deadline that is set whatever the timeout
wait_deadline_always(now, timeout_sec) == Some(now + Max(1, timeout_sec))

\* wait_for_outputs, lines 177-178: the deadline; NoNumber is None
wait_deadline(now, timeout_sec) ==
    LET timeout_value == timeout_sec
    IN IF timeout_value <= 0 THEN NoNumber
       ELSE Some(now + Max(1, timeout_value))

\* the call has not ended
Pending == [raised |-> "pending", value |-> <<>>]

\* a loop that only gives up when the deadline lies strictly behind
loop_iteration_strict(p) ==
    IF p.deadline # NoNumber /\ p.now > p.deadline[1]
    THEN [p EXCEPT !.pc = "done",
                   !.out = Raises("RUNNINGHUB_TASK_TIMEOUT")]
    ELSE [p EXCEPT !.pc = "query", !.asked_at = Some(p.now)]

\* the head of the loop (lines 180-184): the deadline check, then the status
\* query is sent
loop_iteration(p) ==
    IF p.deadline # NoNumber /\ p.now >= p.deadline[1]
    THEN [p EXCEPT !.pc = "done",
                   !.out = Raises("RUNNINGHUB_TASK_TIMEOUT")]
    ELSE [p EXCEPT !.pc = "query", !.asked_at = Some(p.now)]

\* wait_for_outputs from its call to its first await (lines 176-184), as
\* called by `caller` whose timeout setting is `configured`
wait_begin(caller, configured, timeout_sec, setting) ==
    loop_iteration(
        [pc |-> "start", now |-> 0,
         caller |-> caller, configured |-> configured,
         timeout_sec |-> timeout_sec,
         poll_interval_sec |-> poll_interval_sec(setting),
         deadline |-> wait_deadline(0, timeout_sec),
         asked_at |-> NoNumber, wake_at |-> 0,
         out |-> Pending,
         \* so far every answer was a running code, no query took
         \* time and no sleep returned late
         ideal |-> TRUE])

\* wait_for_outputs called with a timeout of the caller's choice
wait_for_outputs(timeout_sec, setting) ==
    /\ poll.pc = "idle"
    /\ poll' = wait_begin("direct", timeout_sec, timeout_sec, setting)
    /\ UNCHANGED <<manager, returned, comfy>>

\* the timeout MegaTTS3Service.generate_audio hands to wait_for_outputs
\* (mega_tts3_service.py:69-73)
mega_tts3_wait_timeout(runninghub_audio_timeout_sec) ==
    IF runninghub_audio_timeout_sec > 0 THEN runninghub_audio_timeout_sec
    ELSE 0

\* the timeout InfinitetalkService.generate_video hands to wait_for_outputs
\* (infinitetalk_service.py:95-98)
infinitetalk_wait_timeout(runninghub_video_timeout_sec) == 0

\* MegaTTS3Service.generate_audio waits for the outputs of its speech job
mega_tts3_wait_for_outputs(configured, setting) ==
    /\ poll.pc = "idle"
    /\ poll' = wait_begin("audio", configured,
                          mega_tts3_wait_timeout(configured), setting)
    /\ UNCHANGED <<manager, returned, comfy>>

\* InfinitetalkService.generate_video waits for the outputs of its video job
infinitetalk_wait_for_outputs(configured, setting) ==
    /\ poll.pc = "idle"
    /\ poll' = wait_begin("video", configured,
                          infinitetalk_wait_timeout(configured), setting)
    /\ UNCHANGED <<manager, returned, comfy>>

\* a classification that takes an unknown code for a running one
answer_class_lenient(body) ==
    IF body.code = 0
    THEN IF body.data_is_list THEN "outputs" ELSE "status_error"
    ELSE IF body.code = FAILED_CODE THEN "failed"
    ELSE "running"

\* how wait_for_outputs classifies an answer (lines 185-217)
answer_class(body) ==
    IF body.code = 0
    THEN IF body.data_is_list THEN "outputs" ELSE "status_error"
    ELSE IF body.code \in RUNNING_CODES THEN "running"
    ELSE IF body.code = FAILED_CODE THEN "failed"
    ELSE "status_error"

\* [item for item in data if isinstance(item, dict)] (line 190)
dict_items(data) == SelectSeq(data, LAMBDA item : item.is_dict)

\* the status query returns after d seconds (lines 184-217)
query_outputs_returns(body, d) ==
    /\ poll.pc = "query"
    /\ poll.now + d <= MaxTime
    /\ LET p == [poll EXCEPT !.now = @ + d,
                             !.ideal = @ /\ d = 0
                                         /\ body.code \in RUNNING_CODES]
       IN poll' =
            CASE answer_class(body) = "outputs" ->
                   [p EXCEPT !.pc = "done",
                             !.out = Returns(dict_items(body.data))]
              [] answer_class(body) = "running" ->
                   [p EXCEPT !.pc = "sleep",
                             !.wake_at = p.now + p.poll_interval_sec]
              [] answer_class(body) = "failed" ->
                   [p EXCEPT !.pc = "done",
                             !.out = Raises("RUNNINGHUB_TASK_FAILED")]
              [] OTHER ->
                   [p EXCEPT !.pc = "done",
                             !.out = Raises("RUNNINGHUB_TASK_STATUS_ERROR")]
    /\ UNCHANGED <<manager, returned, comfy>>

\* asyncio.sleep(poll_interval_sec) returns, late seconds after the interval,
\* and the loop goes round (lines 197-198, 180-184)
sleep_returns(late) ==
    /\ poll.pc = "sleep"
    /\ poll.wake_at + late <= MaxTime
    /\ poll' = loop_iteration([poll EXCEPT !.now = poll.wake_at + late,
                                           !.ideal = @ /\ late = 0])
    /\ UNCHANGED <<manager, returned, comfy>>

NextWait ==
    \/ \E t \in TimeoutSecs, i \in PollIntervalSettings :
          wait_for_outputs(t, i)
    \* settings.runninghub_audio_timeout_sec and runninghub_video_timeout_sec
    \* (config.py:73-74): 0, the default, or a number of seconds
    \/ \E t \in {0, 1, 3}, i \in PollIntervalSettings :
          mega_tts3_wait_for_outputs(t, i)
    \/ \E t \in {0, 3}, i \in PollIntervalSettings :
          infinitetalk_wait_for_outputs(t, i)
    \/ \E b \in QueryBodies, d \in QueryDurations :
          query_outputs_returns(b, d)
    \/ \E late \in SleepLateness : sleep_returns(late)

\* one wait_for_outputs call against every backend and clock behaviour
SpecWait == Init /\ [][NextWait]_vars

\* ===================================== ComfyUIService and IndexTTSService
RunnerWorkdir == "third_party"
\* the run directory tempfile.mkdtemp hands to job j, its prompt id, the
\* output metadata of its run and the name under which its caller's input
\* file is staged
RunDir(j)     == <<"comfy_local_run_", j>>
PromptId(j)   == <<"prompt", j>>
History(j)    == <<"history", j>>
StagedName(j) == <<"staged_", j>>
\* how queue_prompt can go before it hands the run to a thread: the prompt is
\* empty or invalid, writing the workflow or an input file fails, all is well
PrepareOutcomes == {"invalid_prompt", "write_failed", "ok"}

JobUpdate(j, fields) ==
    [k \in DOMAIN comfy.jobs[j] |->
        IF k \in DOMAIN fields THEN fields[k] ELSE comfy.jobs[j][k]]

\* ComfyUIService._stage_file on the staged files
_stage_file(staged, staged_name) == staged \cup {staged_name}

\* a caller of the service, IndexTTSService.generate_audio or another one,
\* stages its input file if it has one and calls queue_prompt, which suspends
\* in its first line while a thread sets up the runner
\* (index_tts_service.py:42-53, comfyui_service.py:232)
upload_and_queue(j, has_input) ==
    /\ comfy.jobs[j].pc = "idle"
    /\ comfy' =
         IF has_input
         THEN [comfy EXCEPT
                 !.staged = _stage_file(@, StagedName(j)),
                 !.jobs[j] = JobUpdate(j, [pc |-> "runner",
                                           own |-> {StagedName(j)}])]
         ELSE [comfy EXCEPT !.jobs[j] = JobUpdate(j, [pc |-> "runner"])]
    /\ UNCHANGED <<manager, returned, poll>>

\* the runner is there and queue_prompt runs to its wait for the worker
\* thread, writing every staged file into the run directory (lines 234-262),
\* or raises before it; a failed write is inside the try statement, whose
\* finally clause forgets the staged files (317-318)
queue_prompt(j, prepared) ==
    /\ comfy.jobs[j].pc = "runner"
    /\ comfy' =
         IF prepared = "invalid_prompt"
         THEN [comfy EXCEPT
                 !.jobs[j] = JobUpdate(j, [pc |-> "raised",
                                           result |-> "COMFY_WORKFLOW_ERROR"])]
         ELSE IF prepared = "write_failed"
         THEN [comfy EXCEPT
                 !.disk = @ \cup {RunDir(j)},
                 !.staged = {},
                 !.jobs[j] = JobUpdate(j, [pc |-> "raised",
                                           result |-> "COMFY_WORKFLOW_ERROR"])]
         ELSE [comfy EXCEPT
                 !.disk = @ \cup {RunDir(j)},
                 !.jobs[j] = JobUpdate(j, [pc |-> "waiting",
                                           thread |-> "blocked",
                                           files |-> comfy.staged])]
    /\ UNCHANGED <<manager, returned, poll>>

\* a lock that lets every thread in
_cwd_lock_free_always(locked) == TRUE

\* `with self._cwd_lock`: the thread goes on when the lock is free
_cwd_lock_free(locked) == ~locked

\* the worker thread of job j enters _run_predict's critical section and
\* changes the working directory (lines 100-103); if os.chdir raises, the
\* finally clause restores the directory and the lock is released
_run_predict_enter(j, chdir_ok) ==
    /\ comfy.jobs[j].thread = "blocked"
    /\ _cwd_lock_free(comfy.locked)
    /\ comfy' =
         IF chdir_ok
         THEN [comfy EXCEPT
                 !.locked = TRUE,
                 !.cwd = RunnerWorkdir,
                 !.jobs[j] = JobUpdate(j, [thread |-> "predict",
                                           previous_cwd |-> comfy.cwd])]
         ELSE [comfy EXCEPT
                 !.cwd = comfy.cwd,
                 !.jobs[j] = JobUpdate(j, [thread |-> "done",
                                           previous_cwd |-> comfy.cwd,
                                           result |-> "Exception"])]
    /\ UNCHANGED <<manager, returned, poll>>

\* runner.predict returns or raises; the finally clause restores the working
\* directory and the lock is released (lines 104-111)
_run_predict_leave(j, ok) ==
    /\ comfy.jobs[j].thread = "predict"
    /\ comfy' =
         [comfy EXCEPT
            !.locked = FALSE,
            !.cwd = comfy.jobs[j].previous_cwd,
            !.jobs[j] = JobUpdate(j, [thread |-> "done",
                                      result |-> IF ok THEN "ok"
                                                 ELSE "Exception"])]
    /\ UNCHANGED <<manager, returned, poll>>

\* a cleanup that forgets the run and leaves its directory
cleanup_prompt_cache_only(c, prompt_id) ==
    [c EXCEPT !.run_cache = {run \in @ : run.prompt_id # prompt_id}]

\* ComfyUIService.cleanup_prompt (lines 374-381) on the cache and the disk
cleanup_prompt(c, prompt_id) ==
    IF \E run \in c.run_cache : run.prompt_id = prompt_id
    THEN LET run == CHOOSE r \in c.run_cache : r.prompt_id = prompt_id
         IN [c EXCEPT !.run_cache = @ \ {run}, !.disk = @ \ {run.run_dir}]
    ELSE c

\* ComfyUIService.wait_for_history (lines 320-325)
wait_for_history(c, prompt_id) ==
    IF \E run \in c.run_cache : run.prompt_id = prompt_id
    THEN Returns((CHOOSE r \in c.run_cache : r.prompt_id = prompt_id).history)
    ELSE Raises("COMFY_QUEUE_TIMEOUT")

\* the run of job j is stored under its prompt id (lines 306-309) and the
\* finally clause forgets the staged files (317-318)
run_cached(c, j) ==
    [c EXCEPT !.run_cache = @ \cup {[prompt_id |-> PromptId(j),
                                     run_dir |-> RunDir(j),
                                     history |-> History(j)]},
              !.staged = {}]

\* the worker thread has ended and queue_prompt goes on (lines 263-318).  If
\* the run returned, the run is cached and the prompt id returned, and
\* IndexTTSService.generate_audio reads the history, picks and reads the
\* audio file (or raises INDEX_TTS_FAILED when there is none) and cleans up
\* in its finally clause (index_tts_service.py:54-68), all without another
\* suspension.  If the run raised, queue_prompt raises.
queue_prompt_resume(j, audio_found) ==
    /\ comfy.jobs[j].pc = "waiting"
    /\ comfy.jobs[j].thread = "done"
    /\ comfy' =
         IF comfy.jobs[j].result = "ok"
         THEN LET cleaned == cleanup_prompt(run_cached(comfy, j), PromptId(j))
              IN [cleaned EXCEPT
                    !.jobs[j] = JobUpdate(j,
                       IF audio_found THEN [pc |-> "returned"]
                       ELSE [pc |-> "raised",
                             result |-> "INDEX_TTS_FAILED"])]
         ELSE [comfy EXCEPT
                 !.staged = {},
                 !.jobs[j] = JobUpdate(j, [pc |-> "raised",
                                           result |-> "COMFY_WORKFLOW_ERROR"])]
    /\ UNCHANGED <<manager, returned, poll>>

\* the run returned and queue_prompt returns its prompt id (lines 263-310)
\* to a caller that keeps it
queue_prompt_returns(j) ==
    /\ comfy.jobs[j].pc = "waiting"
    /\ comfy.jobs[j].thread = "done"
    /\ comfy.jobs[j].result = "ok"
    /\ comfy' = [run_cached(comfy, j) EXCEPT
                   !.jobs[j] = JobUpdate(j, [pc |-> "queued"])]
    /\ UNCHANGED <<manager, returned, poll>>

\* a caller of the service calls cleanup_prompt with a prompt id
cleanup_prompt_called(prompt_id) ==
    /\ comfy' = cleanup_prompt(comfy, prompt_id)
    /\ UNCHANGED <<manager, returned, poll>>

\* asyncio.wait_for gives up on the worker thread (lines 259-262, 311-312):
\* queue_prompt raises COMFY_QUEUE_TIMEOUT and its finally clause forgets the
\* staged files, while the thread, which cannot be cancelled, runs on
queue_prompt_timeout(j) ==
    /\ comfy.jobs[j].pc = "waiting"
    /\ comfy.jobs[j].thread \in {"blocked", "predict"}
    /\ comfy' = [comfy EXCEPT
                   !.staged = {},
                   !.jobs[j] = JobUpdate(j, [pc |-> "raised",
                                             result |-> "COMFY_QUEUE_TIMEOUT"])]
    /\ UNCHANGED <<manager, returned, poll>>

NextComfy ==
    \/ \E j \in Jobs, has_input \in BOOLEAN : upload_and_queue(j, has_input)
    \/ \E j \in Jobs, p \in PrepareOutcomes : queue_prompt(j, p)
    \/ \E j \in Jobs, ok \in BOOLEAN : _run_predict_enter(j, ok)
    \/ \E j \in Jobs, ok \in BOOLEAN : _run_predict_leave(j, ok)
    \/ \E j \in Jobs, found \in BOOLEAN : queue_prompt_resume(j, found)
    \/ \E j \in Jobs : queue_prompt_returns(j)
    \* the prompt ids of the jobs and one, PromptId(0), that no job has
    \/ \E j \in 0..MaxJobs : cleanup_prompt_called(PromptId(j))
    \/ \E j \in Jobs : queue_prompt_timeout(j)

\* the local runner under MaxJobs speech jobs of IndexTTSService
SpecComfy == Init /\ [][NextComfy]_vars

\* ==================================================================== claims
\* the background runs of a task that have been created and have not ended
RunCount(cs, id) ==
    LET runs == {c \in BagToSet(cs) : c.kind = "run" /\ c.task = id}
        Sum[S \in SUBSET runs] ==
            IF S = {} THEN 0
            ELSE LET c == CHOOSE x \in S : TRUE
                 IN CopiesIn(c, cs) + Sum[S \ {c}]
    IN Sum[runs]

\* C1: a task whose status is not FAILED has a null error message and a null
\* error code.
C1_NoErrorUnlessFailed ==
    \A id \in DOMAIN tasks :
        tasks[id].status # FAILED =>
            tasks[id].error = None /\ tasks[id].error_code = None

\* C2: a task whose status is FAILED has a non-null error code and a non-null
\* error message.
C2_FailedHasError ==
    \A id \in DOMAIN tasks :
        tasks[id].status = FAILED =>
            tasks[id].error # None /\ tasks[id].error_code # None

\* C3: a non-null video URL is readable from the task record and from the
\* result query only while the task's status is COMPLETED.
C3_VideoUrlOnlyWhenCompleted ==
    \A id \in DOMAIN tasks :
        (tasks[id].video_url # None \/ DigitalHumanResult(id).video_url # None)
            => tasks[id].status = COMPLETED

\* C4: a non-null audio URL or audio duration is never readable from the task
\* record while the status is PENDING, UPLOADING, GENERATING_SCRIPT or
\* GENERATING_AUDIO.
C4_AudioOnlyFromAudioReady ==
    \A id \in DOMAIN tasks :
        (tasks[id].audio_url # None \/ tasks[id].audio_duration_sec # NoNumber)
            => tasks[id].status \notin
                 {PENDING, UPLOADING, GENERATING_SCRIPT, GENERATING_AUDIO}

\* C5: the status query answers with a null result bundle when the task's
\* status is PENDING, UPLOADING, GENERATING_SCRIPT, GENERATING_AUDIO or
\* GENERATING_IMAGE, and with a non-null bundle when it is AUDIO_READY or
\* COMPLETED.
C5_ResultBundleByStatus ==
    response.kind = "status" =>
        /\ response.task_id \in DOMAIN tasks
        /\ response.status = tasks[response.task_id].status
        /\ response.status \in {PENDING, UPLOADING, GENERATING_SCRIPT,
                                GENERATING_AUDIO, GENERATING_IMAGE}
             => response.result = NoDict
        /\ response.status \in {AUDIO_READY, COMPLETED}
             => response.result # NoDict

\* C5 witness: a status query answered for a task whose audio is ready, with
\* the bundle carrying the audio URL.
C5_Witness ==
    /\ response.kind = "status"
    /\ response.status = AUDIO_READY
    /\ response.result # NoDict
    /\ response.result.audio_url = AudioUrl

\* C6: once a task's status is COMPLETED or FAILED no step changes it again,
\* short of deleting the task.
C6_TerminalStatusStays ==
    [][\A id \in DOMAIN tasks :
         (tasks[id].status \in {COMPLETED, FAILED} /\ id \in DOMAIN tasks')
            => tasks'[id].status = tasks[id].status]_vars

\* C7: every status change is a step to FAILED or a step forward along the
\* order PENDING, UPLOADING, GENERATING_SCRIPT, GENERATING_AUDIO, AUDIO_READY,
\* GENERATING_IMAGE, GENERATING_VIDEO, COMPLETED.
C7_StatusOnlyAdvances ==
    [][LET \* the order of the pipeline states; FAILED is not on it
           Rank(status) ==
               CASE status = PENDING           -> 0
                 [] status = UPLOADING         -> 1
                 [] status = GENERATING_SCRIPT -> 2
                 [] status = GENERATING_AUDIO  -> 3
                 [] status = AUDIO_READY       -> 4
                 [] status = GENERATING_IMAGE  -> 5
                 [] status = GENERATING_VIDEO  -> 6
                 [] status = COMPLETED         -> 7
       IN
       \A id \in DOMAIN tasks :
         (id \in DOMAIN tasks' /\ tasks'[id].status # tasks[id].status)
            => \/ tasks'[id].status = FAILED
               \/ /\ tasks[id].status # FAILED
                  /\ Rank(tasks'[id].status) > Rank(tasks[id].status)]_vars

\* C8: while a task's status is not FAILED its progress never decreases from
\* one state to the next.
C8_ProgressNeverDecreases ==
    [][\A id \in DOMAIN tasks :
         (/\ id \in DOMAIN tasks'
          /\ tasks[id].status # FAILED
          /\ tasks'[id].status # FAILED)
            => tasks'[id].progress >= tasks[id].progress]_vars

\* C9: for every task id at most one background generation run is active at
\* any time.
C9_AtMostOneRun ==
    \A id \in TaskIds : RunCount(calls, id) <= 1

\* C10: a background run does not execute inside the start_generation call
\* that creates it, and at the moment a run ends the task, if it still
\* exists, has status COMPLETED or FAILED.
C10_RunEndsTerminal ==
    [][\A id \in TaskIds :
         /\ RunCount(calls', id) > RunCount(calls, id)
              => tasks'[id].status = tasks[id].status
         /\ (RunCount(calls', id) < RunCount(calls, id) /\ id \in DOMAIN tasks')
              => tasks'[id].status \in {COMPLETED, FAILED}]_vars

\* C10 witness: a run has ended because its prompt generation raised, and the
\* task carries that failure.
C10_Witness ==
    \E id \in DOMAIN tasks :
        /\ RunCount(calls, id) = 0
        /\ tasks[id].status = FAILED
        /\ tasks[id].error_code = "PROMPT_FIELD_EXTRACTION_FAILED"

\* C11: whenever upload_materials, generate_script or generate_audio on an
\* existing task ends by raising to its caller, the task is FAILED and its
\* error slot holds the raised error's message and, when the raised error has
\* one, its code.  (The three codes left out are raised by start_generation
\* only.)
C11_RaisedErrorIsRecorded ==
    (/\ response.kind = "raise"
     /\ response.task \in DOMAIN tasks
     /\ response.code \notin {"SCRIPT_REQUIRED", "AUDIO_REQUIRED",
                              "INVALID_REQUEST"})
       => /\ tasks[response.task].status = FAILED
          /\ tasks[response.task].error = response.message
          /\ response.code # None
                => tasks[response.task].error_code = response.code

\* C12: a generate_audio call without reference audio contacts no external
\* service (it leaves no coroutine waiting for the speech service or the
\* object storage) and raises; on an existing task with a supported language
\* and a non-empty script text the error is MEGA_TTS3_REFERENCE_AUDIO_REQUIRED.
\* The speech service itself, called without reference audio and with no
\* readable default reference, raises that error before its first upload.
C12_NoReferenceNoContact ==
    [][/\ ops' = ops + 1 =>
            IF response'.kind = "raise" /\ calls' = calls
            THEN response'.code # "MEGA_TTS3_REFERENCE_AUDIO_REQUIRED" =>
                   \A l \in AudioLanguages, o \in TextOverrides :
                      LET id == response'.task
                      IN (/\ Exists(tasks, id)
                          /\ (IF Falsy(l) THEN tasks[id].language ELSE l)
                                \in LanguageEnum
                          /\ Strip(IF o = None THEN tasks[id].voice_text
                                   ELSE o) # "")
                            => ~generate_audio(id, l, o, None)
            ELSE \A id \in TaskIds, l \in AudioLanguages,
                    o \in TextOverrides : ~generate_audio(id, l, o, None)
       /\ \A d \in {"", "missing.wav"} :
            MegaTTS3Service_generate_audio("v1", None, d)
               = "MEGA_TTS3_REFERENCE_AUDIO_REQUIRED"]_vars

\* C12 witness: a call without reference audio on a task with a script text
\* was answered with the reference-required error, and nothing is in flight.
C12_Witness ==
    /\ response.kind = "raise"
    /\ response.code = "MEGA_TTS3_REFERENCE_AUDIO_REQUIRED"
    /\ response.task \in DOMAIN tasks
    /\ tasks[response.task].voice_text = "v2"
    /\ calls = EmptyBag

\* C13: a generate_audio call that raises the timeout error had a positive
\* timeout, has left its speech job cancelled and has marked the task (if it
\* exists) FAILED with MEGA_TTS3_TIMEOUT; and however an abandoned job ends,
\* no exception of it is left unhandled.
C13_TimeoutCancelsAndDrains ==
    [][/\ unhandled' = {}
       /\ (response'.kind = "raise" /\ response'.code = "MEGA_TTS3_TIMEOUT")
            => /\ \E c \in Suspended :
                    /\ c.kind = "audio" /\ c.pc = "tts"
                    /\ c.task = response'.task
                    /\ c.timeout_sec > 0
                    /\ calls' = Moved(c, [kind |-> "audio", task |-> c.task,
                                          pc |-> "cancelled"])
               /\ response'.task \in DOMAIN tasks'
                    => /\ tasks'[response'.task].status = FAILED
                       /\ tasks'[response'.task].error_code
                             = "MEGA_TTS3_TIMEOUT"]_vars

\* C13 witness: generate_audio timed out, and the job it abandoned has since
\* ended.
C13_Witness ==
    /\ calls = EmptyBag
    /\ unhandled = {}
    /\ \E id \in DOMAIN tasks :
          /\ tasks[id].status = FAILED
          /\ tasks[id].error_code = "MEGA_TTS3_TIMEOUT"

\* C14: no step of a background run submits a speech job (only a stage
\* request does); the audio a run hands to the video stage is the final audio
\* URL stored on the task; and with no final audio URL stored the audio
\* resolution fails with AUDIO_REQUIRED.
C14_RunOnlyReadsStoredAudio ==
    [][LET \* the speech jobs of a task that generate_audio is waiting for
           SpeechJobCount(cs, id) ==
               LET jobs == {c \in BagToSet(cs) :
                               c.kind = "audio" /\ c.pc = "tts" /\ c.task = id}
                   Sum[S \in SUBSET jobs] ==
                       IF S = {} THEN 0
                       ELSE LET c == CHOOSE x \in S : TRUE
                            IN CopiesIn(c, cs) + Sum[S \ {c}]
               IN Sum[jobs]
       IN
       /\ \A id \in TaskIds :
            SpeechJobCount(calls', id) > SpeechJobCount(calls, id)
               => ops' = ops + 1
       /\ \A c \in BagToSet(calls') :
            (c.kind = "run" /\ c.pc \in {"download", "video"})
               => /\ c.final_audio_url # None
                  /\ (c.pc = "download" /\ c \notin BagToSet(calls)
                         /\ Exists(tasks, c.task))
                       => c.final_audio_url = tasks[c.task].final_audio_url
       /\ _resolve_audio_for_video(TaskData)
             = [ok |-> FALSE, value |-> "AUDIO_REQUIRED"]]_vars

\* C14 witness: a run has submitted its video job with the stored audio.
C14_Witness ==
    \E c \in BagToSet(calls) :
        /\ c.kind = "run" /\ c.pc = "video"
        /\ c.final_audio_url = AudioUrl

\* C15 as stated: workflow-reference resolution maps each of
\* "https://x/workflow/123456", "123456" and "wf-123456-v2" to the workflow id
\* "123456", and fails with the config-error code for any reference string
\* that contains no digit.
C15_AllThreeResolveTo123456 ==
    returned.fn = "_resolve_workflow_id" =>
        /\ returned.arg \in {RefUrl, RefDigits, RefTagged}
              => returned.out = Returns(RefDigits)
        /\ (\A i \in 1..Len(returned.arg) : returned.arg[i] \notin Digits)
              => returned.out = Raises("RUNNINGHUB_CONFIG_ERROR")

\* C15 (amended): workflow-reference resolution maps
\* "https://x/workflow/123456" and "123456" to the workflow id "123456" and
\* "wf-123456-v2" to "2", its last run of digits, and fails with the
\* config-error code for any reference string that contains no digit.
C15_LastRunOfDigitsWins ==
    returned.fn = "_resolve_workflow_id" =>
        /\ returned.arg \in {RefUrl, RefDigits}
              => returned.out = Returns(RefDigits)
        /\ returned.arg = RefTagged => returned.out = Returns(<<"2">>)
        /\ (\A i \in 1..Len(returned.arg) : returned.arg[i] \notin Digits)
              => returned.out = Raises("RUNNINGHUB_CONFIG_ERROR")

\* C15 witness: "wf-123456-v2" has been resolved, to "2".
C15_Witness ==
    /\ returned.fn = "_resolve_workflow_id"
    /\ returned.arg = RefTagged
    /\ returned.out.value = <<"2">>

\* C16: wait_for_outputs with timeout <= 0 never raises TASK_TIMEOUT and, when
\* its sleep after a running answer ends, sends the next status query; with
\* timeout > 0 an iteration that starts at or after the deadline raises
\* TASK_TIMEOUT whatever the backend would answer, an iteration that starts
\* before it sends a query, and so no query is sent at or after the deadline.
C16_DeadlineCheckedUpFront ==
    [][poll'.pc # "idle" =>
         /\ poll'.timeout_sec <= 0 =>
               /\ poll'.out # Raises("RUNNINGHUB_TASK_TIMEOUT")
               /\ poll.pc = "sleep" => poll'.pc = "query"
         /\ poll'.timeout_sec > 0 =>
               LET deadline == poll'.timeout_sec
               IN /\ poll'.deadline = Some(deadline)
                  /\ poll.pc = "sleep" =>
                        IF poll'.now >= deadline
                        THEN poll'.out = Raises("RUNNINGHUB_TASK_TIMEOUT")
                        ELSE poll'.pc = "query" /\ poll'.out = Pending
                  /\ poll'.out = Raises("RUNNINGHUB_TASK_TIMEOUT")
                        => poll'.now >= deadline
                  /\ poll'.asked_at # NoNumber
                        => poll'.asked_at[1] < deadline]_vars

\* C16 witness: a call with a deadline has been answered "running" after the
\* deadline went by, and has raised TASK_TIMEOUT at its next iteration.
C16_Witness ==
    /\ poll.pc = "done"
    /\ poll.timeout_sec = 3
    /\ poll.out = Raises("RUNNINGHUB_TASK_TIMEOUT")
    /\ poll.asked_at[1] < 3
    /\ ~poll.ideal

\* C17 as stated: against a backend that always reports a running code, with
\* status queries that take no time, wait_for_outputs with timeout T > 0 and
\* poll interval P raises the timeout error at a time t with T <= t <= T + P,
\* never earlier than T; in particular with T = 5 it raises within 5 to 6
\* seconds.
C17_TimeoutWithinFiveToSix ==
    (poll.pc # "idle" /\ poll.ideal /\ poll.timeout_sec > 0) =>
        LET T == poll.timeout_sec
            P == poll.poll_interval_sec
        IN /\ poll.pc # "done" => poll.now < T
           /\ poll.pc = "done" =>
                 /\ poll.out = Raises("RUNNINGHUB_TASK_TIMEOUT")
                 /\ T <= poll.now /\ poll.now <= T + P
                 /\ T = 5 => (5 <= poll.now /\ poll.now <= 6)

\* C17 (amended): against a backend that always reports a running code, with
\* status queries that take no time, wait_for_outputs with timeout T > 0 and
\* poll interval P raises the timeout error at a time t with T <= t <= T + P,
\* never earlier than T; in particular with T = 5 it raises within 5 to 6
\* seconds when the poll interval is 1 second or the default 5 seconds.
C17_TimeoutWithinOneInterval ==
    (poll.pc # "idle" /\ poll.ideal /\ poll.timeout_sec > 0) =>
        LET T == poll.timeout_sec
            P == poll.poll_interval_sec
        IN /\ poll.pc # "done" => poll.now < T
           /\ poll.pc = "done" =>
                 /\ poll.out = Raises("RUNNINGHUB_TASK_TIMEOUT")
                 /\ T <= poll.now /\ poll.now <= T + P
                 /\ (T = 5 /\ P \in {1, 5})
                       => (5 <= poll.now /\ poll.now <= 6)

\* C17 witness: with T = 5 and the default interval of 5 seconds the call has
\* raised the timeout error at 5 seconds, after one running answer.
C17_Witness ==
    /\ poll.pc = "done"
    /\ poll.ideal
    /\ poll.timeout_sec = 5
    /\ poll.poll_interval_sec = 5
    /\ poll.out = Raises("RUNNINGHUB_TASK_TIMEOUT")
    /\ poll.now = 5

\* C18: for both output pickers of the remote queue client and every list of
\* output descriptors: if some output's declared file type or URL extension
\* is in the picker's known extension set, the first such output in list
\* order is returned; if exactly one output exists and it does not match,
\* that output is returned anyway; for an empty list or several outputs with
\* none matching, the picker returns no match.
C18_PickersAcceptSingleOutput ==
    LET \* the outputs of a list whose declared file type or URL extension
        \* is in a picker's known extension set
        Matching(outputs, known) ==
            {i \in 1..Len(outputs) :
                \/ str_lower(outputs[i].fileType) \in known
                \/ \E ext \in known :
                      str_endswith(str_lower(outputs[i].fileUrl),
                                   <<".">> \o ext)}
    IN
    returned.fn \in {"pick_first_audio_output", "pick_first_video_output"} =>
        LET outputs == returned.arg
            known   == IF returned.fn = "pick_first_audio_output"
                       THEN AudioFileTypes ELSE VideoFileTypes
            hits    == Matching(outputs, known)
        IN IF hits # {}
           THEN returned.out
                  = Returns(Some(outputs[CHOOSE i \in hits :
                                            \A j \in hits : i <= j]))
           ELSE IF Len(outputs) = 1
           THEN returned.out = Returns(Some(outputs[1]))
           ELSE returned.out = Returns(NoOutput)

\* C19: the critical sections (change to the runner directory, run, restore)
\* of two local-runner runs never overlap, and when a run leaves its critical
\* section, having returned or raised, the process working directory is
\* again the one the run found on entry.
C19_CriticalSectionsSerialized ==
    [][LET \* the jobs whose worker thread is inside the critical section of
           \* _run_predict
           InCriticalSection(c) == {j \in Jobs : c.jobs[j].thread = "predict"}
       IN
       /\ Cardinality(InCriticalSection(comfy')) <= 1
       /\ \A j \in Jobs :
             /\ (j \in InCriticalSection(comfy)
                    /\ j \notin InCriticalSection(comfy'))
                  => comfy'.cwd = comfy.jobs[j].previous_cwd
             /\ (comfy.jobs[j].thread = "blocked"
                    /\ comfy'.jobs[j].thread = "done")
                  => comfy'.cwd = comfy.cwd
             /\ (j \notin InCriticalSection(comfy)
                    /\ j \in InCriticalSection(comfy'))
                  => comfy'.jobs[j].previous_cwd = comfy.cwd
       /\ InCriticalSection(comfy') = {} => comfy'.cwd = StartCwd]_vars

\* C19 witness: two runs were submitted concurrently, one is inside its
\* critical section and the other waits for the lock.
C19_Witness ==
    \E j, k \in Jobs :
        /\ comfy.jobs[j].thread = "predict"
        /\ comfy.jobs[k].thread = "blocked"
        /\ comfy.cwd = RunnerWorkdir

\* C20: once the stage executor's use of a local-runner job has ended, with a
\* result or with an error raised by the run, by queue_prompt or after it,
\* the run directory created for the job is not on disk.
C20_RunDirDeletedWhateverOutcome ==
    \A j \in Jobs :
        comfy.jobs[j].pc \in {"returned", "raised"}
            => RunDir(j) \notin comfy.disk

\* C21: a task with status COMPLETED has a non-empty video URL and an
\* aspect_ratio_applied equal to the ratio mapped from the task's stored
\* platform, also when start_generation was called more than once with
\* different platforms.
C21_CompletedRatioMatchesPlatform ==
    \A id \in DOMAIN tasks :
        tasks[id].status = COMPLETED =>
            /\ ~Falsy(tasks[id].video_url)
            /\ tasks[id].aspect_ratio_applied
                  = _aspect_ratio_for_platform(tasks[id].platform)

\* the empty text and the whitespace-only text; the requests whose product
\* name and selling points are both blank
Blank == {"", " "}
BlankScriptInputs == {in \in ScriptInputs : in[1] \in Blank /\ in[2] \in Blank}

\* C22: a generate_script call whose product name and selling-points string
\* are both empty or whitespace-only raises, leaves the task registry as it
\* was and leaves no coroutine waiting for the language model; on an existing
\* task with a supported language the error is SCRIPT_INPUT_REQUIRED.
C22_BlankInputsRejected ==
    [][ops' = ops + 1 =>
         IF response'.kind = "raise" /\ calls' = calls /\ tasks' = tasks
         THEN response'.code # "SCRIPT_INPUT_REQUIRED" =>
                \A in \in BlankScriptInputs, l \in LanguageInputs :
                   (Exists(tasks, response'.task) /\ l \in LanguageEnum)
                      => ~generate_script(response'.task, in[1], in[2], l)
         ELSE \A id \in TaskIds, in \in BlankScriptInputs,
                 l \in LanguageInputs :
                 ~generate_script(id, in[1], in[2], l)]_vars

\* C22 witness: a call with blank inputs on a task that has its materials was
\* answered with SCRIPT_INPUT_REQUIRED, and nothing is in flight.
C22_Witness ==
    /\ response.kind = "raise"
    /\ response.code = "SCRIPT_INPUT_REQUIRED"
    /\ response.task \in DOMAIN tasks
    /\ tasks[response.task].status = UPLOADING
    /\ tasks[response.task].portrait_image = PortraitUrl
    /\ calls = EmptyBag

\* C23: the fail operation applied to an existing task sets its status to
\* FAILED, clears its current-step label and records the given error code and
\* message; applied to a task id that is absent it changes nothing.
C23_FailMarksAndClearsStep ==
    LET \* error codes and messages the fail operation is called with
        FailCodes    == {"UPLOAD_FAILED", "MEGA_TTS3_TIMEOUT", "AUDIO_REQUIRED"}
        FailMessages == {"exc", "timeout"}
    IN
    \A id \in TaskIds, code \in FailCodes, message \in FailMessages :
        LET failed == _fail_task(tasks, id, code, message)
        IN IF Exists(tasks, id)
           THEN /\ failed[id].status = FAILED
                /\ failed[id].current_step = ""
                /\ failed[id].error = message
                /\ failed[id].error_code = code
           ELSE failed = tasks

\* C24: a mutation that names a field the task record does not have is
\* rejected: it does not report success and applies none of the fields of the
\* call; a mutation of a task id that is absent reports failure and changes
\* no task.
C24_UnknownFieldRejected ==
    LET \* partial updates that name a field TaskData does not have, alone
        \* or next to fields it has
        UnknownFieldUpdates ==
            {[no_such_field |-> "x"],
             [no_such_field |-> "x", progress |-> 99,
              current_step |-> "patched"]}
    IN
    \A id \in TaskIds, kw \in UnknownFieldUpdates :
        /\ ~update_task_returns(tasks, id, kw)
        /\ update_task(tasks, id, kw) = tasks

\* C25: a successful generate_script call replaces voice_text with the newly
\* generated text whatever its previous value, and neither of its steps
\* changes an image, audio or video field of the task; after it, one call
\* with the same inputs and the same answer of the language model yields the
\* same record as two such calls.
C25_ScriptReplacesTextOnly ==
    [][LET \* the image, audio and video fields of a task record
           MediaFields ==
               {"portrait_image", "scene_images", "model_image_url",
                "audio_url", "final_audio_url", "audio_duration_sec",
                "video_url"}
           \* one successful generate_script call, from its request to its
           \* return, with no other coroutine running in between
           script_call(ts, id, in, language, voice_text) ==
               script_stage_done(
                   script_stage_started(ts, id, Strip(in[1]), Strip(in[2]),
                                        language),
                   id, voice_text)
       IN
       IF ops' = ops + 1
       THEN \A c \in BagToSet(calls') :
              (c.kind = "script" /\ CopiesIn(c, calls') > CopiesIn(c, calls))
                 => \A f \in MediaFields :
                       tasks'[c.task][f] = tasks[c.task][f]
       ELSE (response' = NoResponse /\ calls' # calls) =>
              \A c \in Suspended :
                 (/\ c.kind = "script" /\ Exists(tasks, c.task)
                  /\ calls' = Finish(c))
                    => /\ tasks'[c.task].voice_text \in LlmScripts
                       /\ \A f \in MediaFields :
                             tasks'[c.task][f] = tasks[c.task][f]
                       /\ \A in \in ScriptInputs \ BlankScriptInputs,
                             l \in LanguageInputs \cap LanguageEnum :
                             LET v    == tasks'[c.task].voice_text
                                 once == script_call(tasks', c.task, in, l, v)
                             IN script_call(once, c.task, in, l, v) = once]_vars

\* C25 witness: a script call has succeeded on a task that already had its
\* audio, and the audio fields are as the audio stage left them.
C25_Witness ==
    \E id \in DOMAIN tasks :
        /\ tasks[id].status = GENERATING_SCRIPT
        /\ tasks[id].current_step = "script_done"
        /\ tasks[id].voice_text \in LlmScripts
        /\ tasks[id].final_audio_url = AudioUrl
        /\ tasks[id].audio_duration_sec # NoNumber

\* C26 as stated: generate_audio on a task whose voice_text is empty raises
\* and submits no speech job, for every combination of the other request
\* parameters.
C26_NoScriptNoSpeechJob ==
    [][ops' = ops + 1 =>
         (response'.kind = "raise" /\ calls' = calls)
         \/ \A id \in DOMAIN tasks :
               tasks[id].voice_text = "" =>
                  \A l \in AudioLanguages, o \in TextOverrides,
                     r \in ReferenceAudio : ~generate_audio(id, l, o, r)]_vars

\* C26, amended: generate_audio on a task whose voice_text is empty raises
\* and submits no speech job, for every combination of the other request
\* parameters without a non-blank voice-text override; without an override
\* and with a supported language the error is MEGA_TTS3_FAILED.
C26_NoScriptNoOverrideNoSpeechJob ==
    [][LET \* the requests that bring no script text of their own: no
           \* override, or a blank one
           NoTextOverrides == {o \in TextOverrides : o = None \/ o \in Blank}
       IN
       ops' = ops + 1 =>
         \A id \in DOMAIN tasks :
            tasks[id].voice_text = "" =>
               IF response'.kind = "raise" /\ calls' = calls
               THEN (response'.task = id
                       /\ response'.code # "MEGA_TTS3_FAILED") =>
                      \A l \in AudioLanguages, r \in ReferenceAudio :
                         (IF Falsy(l) THEN tasks[id].language ELSE l)
                               \in LanguageEnum
                            => ~generate_audio(id, l, None, r)
               ELSE \A l \in AudioLanguages, o \in NoTextOverrides,
                       r \in ReferenceAudio : ~generate_audio(id, l, o, r)]_vars

\* C26 witness: a call with reference audio and no override on a task with
\* its materials and no script text was answered with MEGA_TTS3_FAILED, and
\* nothing is in flight.
C26_Witness ==
    /\ response.kind = "raise"
    /\ response.code = "MEGA_TTS3_FAILED"
    /\ response.message = "no script"
    /\ response.task \in DOMAIN tasks
    /\ tasks[response.task].voice_text = ""
    /\ tasks[response.task].portrait_image = PortraitUrl
    /\ calls = EmptyBag

\* C27: the video job a background run submits carries a frame-count
\* override equal to seconds x 25 exactly when the task's duration mode is
\* FIXED, seconds being the positive fixed duration start_generation
\* accepted, and carries no frame-count override when the mode is
\* FOLLOW_AUDIO.
C27_FrameCountFollowsDurationMode ==
    [][(ops' = ops /\ tasks' = tasks /\ calls' # calls) =>
         \A c \in BagToSet(calls') :
            (/\ c.kind = "run" /\ c.pc = "video"
             /\ CopiesIn(c, calls') > CopiesIn(c, calls)
             /\ Exists(tasks, c.task))
               => LET task == tasks[c.task]
                  IN IF task.duration_mode = "fixed"
                     THEN /\ task.fixed_duration_sec # NoNumber
                          /\ task.fixed_duration_sec[1] > 0
                          /\ c.num_frames
                                = Some(task.fixed_duration_sec[1] * 25)
                     ELSE /\ task.duration_mode = "follow_audio"
                          /\ c.num_frames = NoNumber]_vars

\* C27 witness: a run has submitted its video job for a task in FIXED mode
\* with 2 seconds, and the job carries 50 frames.
C27_Witness ==
    \E c \in BagToSet(calls) :
        /\ c.kind = "run" /\ c.pc = "video"
        /\ c.duration_mode = "fixed"
        /\ c.fixed_duration_sec = Some(2)
        /\ c.num_frames = Some(50)

\* C28: a background run that starts on a task that lacks a portrait image
\* URL or has no non-empty scene image URL ends in that step: the task is
\* FAILED with PORTRAIT_IMAGE_REQUIRED or SCENE_IMAGE_REQUIRED, and the run
\* is not left waiting for the prompt model, the image model or a video job.
C28_RunWithoutMaterialsFails ==
    [][LET \* the task has no portrait image URL, or no non-empty scene
           \* image URL
           MaterialsLacking(task) ==
               \/ Falsy(task.portrait_image)
               \/ \A i \in 1..Len(task.scene_images) :
                     Strip(task.scene_images[i]) = ""
       IN
       (ops' = ops /\ calls' # calls) =>
         \A c \in Suspended :
            (/\ c.kind = "run" /\ c.pc = "created"
             /\ CopiesIn(c, calls') < CopiesIn(c, calls)
             /\ Exists(tasks, c.task)
             /\ MaterialsLacking(tasks[c.task]))
               => /\ calls' = Finish(c)
                  /\ tasks'[c.task].status = FAILED
                  /\ tasks'[c.task].error_code
                        \in {"PORTRAIT_IMAGE_REQUIRED",
                             "SCENE_IMAGE_REQUIRED"}]_vars

\* C28 witness: a run on a task with a portrait and no scene image has ended,
\* and the task carries SCENE_IMAGE_REQUIRED.
C28_Witness ==
    /\ calls = EmptyBag
    /\ \E id \in DOMAIN tasks :
          /\ tasks[id].status = FAILED
          /\ tasks[id].error_code = "SCENE_IMAGE_REQUIRED"
          /\ tasks[id].portrait_image = PortraitUrl
          /\ tasks[id].person_prompt = ""
          /\ tasks[id].model_image_url = None

\* C29: start_generation rejects a platform other than tiktok or instagram,
\* an unknown duration mode and FIXED mode with a missing or non-positive
\* duration with INVALID_REQUEST, a task without script with SCRIPT_REQUIRED
\* and a task with a script and without final audio URL with AUDIO_REQUIRED;
\* on every such rejection the task registry is unchanged and no background
\* run is created.
C29_StartRejectionsLeaveTaskAlone ==
    [][LET \* the start requests the claim lists: a platform other than
           \* tiktok or instagram, an unknown duration mode, FIXED mode with a
           \* missing or non-positive duration
           BadStartInputs ==
               {in \in StartInputs :
                   \/ in[1] \notin {"tiktok", "instagram"}
                   \/ in[2] \notin {"follow_audio", "fixed"}
                   \/ in[2] = "fixed" /\ (in[3] = NoNumber \/ in[3][1] <= 0)}
           \* the error start_generation owes an existing task for a request
           \* of BadStartInputs, or for any request when the script or the
           \* audio is missing
           StartRejection(task) ==
               IF Falsy(task.voice_text) THEN "SCRIPT_REQUIRED"
               ELSE IF Falsy(task.final_audio_url) THEN "AUDIO_REQUIRED"
               ELSE "INVALID_REQUEST"
       IN
       ops' = ops + 1 =>
         \A id \in DOMAIN tasks :
            LET ins == IF StartRejection(tasks[id]) = "INVALID_REQUEST"
                       THEN BadStartInputs ELSE StartInputs
            IN IF response'.kind = "raise" /\ calls' = calls /\ tasks' = tasks
               THEN (response'.task = id
                       /\ response'.code # StartRejection(tasks[id])) =>
                      \A in \in ins : ~start_generation(id, in[1], in[2], in[3])
               ELSE \A in \in ins :
                       ~start_generation(id, in[1], in[2], in[3])]_vars

\* C29 witness: a start request was rejected with INVALID_REQUEST on a task
\* that has its script and its audio, and no run exists.
C29_Witness ==
    /\ response.kind = "raise"
    /\ response.code = "INVALID_REQUEST"
    /\ response.task \in DOMAIN tasks
    /\ ~Falsy(tasks[response.task].voice_text)
    /\ tasks[response.task].final_audio_url = AudioUrl
    /\ tasks[response.task].status = AUDIO_READY
    /\ calls = EmptyBag

\* C30: in wait_for_outputs each poll answer is classified by its code: code
\* 0 with a list ends the wait successfully with the output descriptors of
\* the list; code 804 or 813 leaves the wait pending and makes it sleep one
\* poll interval, after which the loop goes round to its next poll (or to the
\* timeout error when the deadline has been reached by then); code 805 ends
\* the wait with TASK_FAILED; any other code, and code 0 whose data is not a
\* list, ends it at once with TASK_STATUS_ERROR; and a wait that has ended
\* never polls again.
C30_AnswersClassifiedByCode ==
    [][/\ \A b \in QueryBodies, d \in QueryDurations :
            query_outputs_returns(b, d) =>
               CASE b.code = 0 /\ b.data_is_list ->
                      /\ poll'.pc = "done"
                      /\ poll'.out.raised = None
                      /\ \A i \in 1..Len(poll'.out.value) :
                            poll'.out.value[i] = OutputItem
                      /\ Len(poll'.out.value)
                            = Cardinality({i \in 1..Len(b.data) :
                                             b.data[i] = OutputItem})
                 [] b.code \in {804, 813} ->
                      /\ poll'.pc = "sleep"
                      /\ poll'.out = Pending
                      /\ poll'.wake_at = poll'.now + poll.poll_interval_sec
                 [] b.code = 805 ->
                      /\ poll'.pc = "done"
                      /\ poll'.out = Raises("RUNNINGHUB_TASK_FAILED")
                 [] OTHER ->
                      /\ poll'.pc = "done"
                      /\ poll'.out = Raises("RUNNINGHUB_TASK_STATUS_ERROR")
       /\ poll.pc = "sleep" =>
            /\ poll'.now >= poll.wake_at
            /\ \/ poll'.pc = "query" /\ poll'.asked_at = Some(poll'.now)
               \/ /\ poll'.pc = "done"
                  /\ poll'.out = Raises("RUNNINGHUB_TASK_TIMEOUT")
                  /\ poll.deadline # NoNumber
                  /\ poll'.now >= poll.deadline[1]
       /\ poll.pc = "done" => poll' = poll]_vars

\* C30 witness: after a running answer and a sleep of one poll interval, a
\* second poll was answered with code 0 and a list, and the wait returned
\* the descriptor in it.
C30_Witness ==
    /\ poll.pc = "done"
    /\ poll.out = Returns(<<OutputItem>>)
    /\ poll.asked_at # NoNumber
    /\ poll.asked_at[1] >= poll.poll_interval_sec
    /\ poll.wake_at = poll.poll_interval_sec

\* C31: workflow-reference resolution follows a fixed precedence for every
\* input string: a string of digits only resolves to itself; otherwise a
\* string that contains "/workflow/<digits>" resolves to those digits (of the
\* first occurrence); otherwise a string with a digit resolves to its last
\* run of digits; an empty or digit-free string fails with the config-error
\* code.
C31_ResolutionPrecedence ==
    LET \* the positions of s at which "/workflow/" starts with a digit
        \* behind it
        PathsWithDigits(s) ==
            {i \in 1..Len(s) :
                /\ i + Len(WorkflowPath) <= Len(s)
                /\ SubSeq(s, i, i + Len(WorkflowPath) - 1) = WorkflowPath
                /\ s[i + Len(WorkflowPath)] \in Digits}
        \* v is the whole run of digits of s that starts at position i
        IsRunFrom(s, i, v) ==
            /\ v # <<>> /\ i + Len(v) - 1 <= Len(s)
            /\ v = SubSeq(s, i, i + Len(v) - 1)
            /\ \A j \in 1..Len(v) : v[j] \in Digits
            /\ i + Len(v) > Len(s) \/ s[i + Len(v)] \notin Digits
        \* v is the whole run of digits of s that ends at position k
        IsRunUpTo(s, k, v) ==
            /\ v # <<>> /\ Len(v) <= k /\ k <= Len(s)
            /\ v = SubSeq(s, k - Len(v) + 1, k)
            /\ \A j \in 1..Len(v) : v[j] \in Digits
            /\ k = Len(v) \/ s[k - Len(v)] \notin Digits
    IN
    returned.fn = "_resolve_workflow_id" =>
        LET s      == returned.arg
            digits == {i \in 1..Len(s) : s[i] \in Digits}
            paths  == PathsWithDigits(s)
            first  == CHOOSE i \in paths : \A j \in paths : i <= j
            last   == CHOOSE k \in digits : \A j \in digits : k >= j
        IN IF s # <<>> /\ digits = 1..Len(s)
           THEN returned.out = Returns(s)
           ELSE IF paths # {}
           THEN /\ returned.out.raised = None
                /\ IsRunFrom(s, first + Len(WorkflowPath),
                             returned.out.value)
           ELSE IF digits # {}
           THEN /\ returned.out.raised = None
                /\ IsRunUpTo(s, last, returned.out.value)
           ELSE returned.out = Raises("RUNNINGHUB_CONFIG_ERROR")

\* C31 witness: a reference with digits behind "/workflow/" and other digits
\* after them was resolved to the digits behind the path.
C31_Witness ==
    /\ returned.fn = "_resolve_workflow_id"
    /\ returned.arg = WorkflowPath \o <<"1", "w", "2">>
    /\ returned.out = Returns(<<"1">>)

\* C32: every blocking wait of a stage honours its configured deadline; for
\* the remote poll loops of the audio job and of the video job: with a
\* positive timeout configured, no status query is sent once it has expired,
\* and a wait that finds the backend still running after it has expired ends
\* with the timeout error.
C32_ConfiguredDeadlineHonoured ==
    (/\ poll.pc # "idle"
     /\ poll.caller \in {"audio", "video"}
     /\ poll.configured > 0)
       => /\ poll.asked_at # NoNumber => poll.asked_at[1] < poll.configured
          /\ (poll.pc = "done" /\ poll.now >= poll.configured
                /\ poll.wake_at >= poll.configured)
               => poll.out = Raises("RUNNINGHUB_TASK_TIMEOUT")

\* C33: when a local-runner run exceeds its hard timeout, queue_prompt raises
\* COMFY_QUEUE_TIMEOUT and the run has been stopped: its worker thread neither
\* executes nor waits for the working-directory lock any more, and if it held
\* the lock the lock is free, so that a later run can enter its critical
\* section.
C33_TimedOutRunStopped ==
    [][\A j \in Jobs :
          (/\ comfy.jobs[j].pc = "waiting"
           /\ comfy'.jobs[j].pc = "raised"
           /\ comfy'.jobs[j].result = "COMFY_QUEUE_TIMEOUT")
             => /\ comfy'.jobs[j].thread \notin {"blocked", "predict"}
                /\ comfy.jobs[j].thread = "predict" => ~comfy'.locked]_vars

\* C34: after a successful local run its output metadata is retrievable by
\* its prompt id and stays so until cleanup_prompt is called with that id;
\* cleanup_prompt removes that cache entry and no other and deletes the run's
\* directory and no other, a second cleanup of the same id and a cleanup of an
\* id that is not cached change nothing, and a history lookup of a cleaned-up
\* or unknown id raises.
C34_CachedUntilCleanup ==
    [][LET Cached(c, prompt_id) ==
               \E run \in c.run_cache : run.prompt_id = prompt_id
           \* the prompt ids of the jobs and one that no job has
           PromptIds == {PromptId(j) : j \in 0..MaxJobs}
       IN
       /\ \A j \in Jobs :
            (comfy.jobs[j].pc = "waiting" /\ comfy'.jobs[j].pc = "queued")
               => wait_for_history(comfy', PromptId(j)) = Returns(History(j))
       /\ \A j \in Jobs :
            LET id == PromptId(j)
                cleaned == cleanup_prompt(comfy', id)
            IN /\ Cached(comfy, id) =>
                     \/ wait_for_history(comfy', id) = Returns(History(j))
                     \/ comfy' = cleanup_prompt(comfy, id)
               /\ Cached(comfy', id) =>
                     /\ RunDir(j) \in comfy'.disk
                     /\ cleaned.disk = comfy'.disk \ {RunDir(j)}
                     /\ \A other \in PromptIds \ {id} :
                           wait_for_history(cleaned, other)
                              = wait_for_history(comfy', other)
       /\ \A id \in PromptIds :
            LET cleaned == cleanup_prompt(comfy', id)
            IN /\ ~Cached(comfy', id) => cleaned = comfy'
               /\ cleanup_prompt(cleaned, id) = cleaned
               /\ wait_for_history(cleaned, id)
                     = Raises("COMFY_QUEUE_TIMEOUT")]_vars

\* C34 witness: two runs were cached, one has been cleaned up since and its
\* directory is gone while the other is still retrievable.
C34_Witness ==
    \E j, k \in Jobs :
        /\ comfy.jobs[j].pc = "queued" /\ comfy.jobs[k].pc = "queued"
        /\ wait_for_history(comfy, PromptId(j)).raised # None
        /\ RunDir(j) \notin comfy.disk
        /\ wait_for_history(comfy, PromptId(k)) = Returns(History(k))

C35_NoAutomaticRetry ==
    [][LET \* how far a background run has come: its position among its awaits
           RunRank(pc) ==
               CASE pc = "created" -> 0 [] pc = "llm" -> 1 [] pc = "ark" -> 2
                 [] pc = "download" -> 3 [] pc = "video" -> 4
           RunsOf(cs) == {c \in BagToSet(cs) : c.kind = "run"}
       IN
       /\ (ops' = ops + 1 /\ response'.kind = "none")
            => \A id \in TaskIds, in \in StartInputs :
                  start_generation(id, in[1], in[2], in[3])
                     => /\ RunCount(calls', id) = RunCount(calls, id) + 1
                        /\ BagCardinality(calls')
                              = BagCardinality(calls) + 1
       /\ ops' = ops
            => /\ BagCardinality(calls') <= BagCardinality(calls)
               /\ \A c2 \in RunsOf(calls') :
                     CopiesIn(c2, calls') > CopiesIn(c2, calls)
                        => \E c \in RunsOf(calls) :
                              /\ c.task = c2.task
                              /\ RunRank(c2.pc) = RunRank(c.pc) + 1
                              /\ CopiesIn(c, calls') = CopiesIn(c, calls) - 1
       /\ ops' = ops + 1
            => \A c2 \in RunsOf(calls') :
                  CopiesIn(c2, calls') > CopiesIn(c2, calls)
                     => /\ c2.pc = "created"
                        /\ response'.kind = "none"
                        /\ \E in \in StartInputs :
                              start_generation(c2.task, in[1], in[2],
                                               in[3])]_vars

\* C35 witness: the image model failed a run's only request; the task is
\* FAILED, has no model image, and nothing is running or waiting for it.
C35_Witness ==
    \E id \in DOMAIN tasks :
        /\ tasks[id].status = FAILED
        /\ tasks[id].error_code = "VIDEO_GENERATION_FAILED"
        /\ tasks[id].person_prompt = "person"
        /\ tasks[id].model_image_url = None
        /\ calls = EmptyBag

\* C39: after generate_audio failed with the overall-timeout error, the speech
\* job it abandoned never writes to the task: in the step in which that job
\* ends, however it ends, no task appears or disappears and the task's
\* status, audio_url, final_audio_url and audio_duration_sec stay as they
\* are.
C39_AbandonedJobNeverWrites ==
    [][\A c \in BagToSet(calls) :
          (/\ c.kind = "audio" /\ c.pc = "cancelled"
           /\ CopiesIn(c, calls') < CopiesIn(c, calls))
             => /\ DOMAIN tasks' = DOMAIN tasks
                /\ c.task \in DOMAIN tasks
                     => LET old == tasks[c.task]
                            new == tasks'[c.task]
                        IN /\ new.status = old.status
                           /\ new.audio_url = old.audio_url
                           /\ new.final_audio_url = old.final_audio_url
                           /\ new.audio_duration_sec
                                 = old.audio_duration_sec]_vars

\* C39 witness: generate_audio timed out on a task that never had audio, the
\* abandoned job has just ended, and the task is still FAILED without audio.
C39_Witness ==
    /\ response = NoResponse
    /\ \A c \in BagToSet(calls) : c.kind # "audio"
    /\ \E id \in DOMAIN tasks :
          /\ tasks[id].status = FAILED
          /\ tasks[id].error_code = "MEGA_TTS3_TIMEOUT"
          /\ tasks[id].audio_url = None
          /\ tasks[id].final_audio_url = None
          /\ tasks[id].audio_duration_sec = NoNumber

\* C40: a generate_audio call that is rejected during input validation
\* (unknown task, unsupported language, empty text or text override, missing
\* reference audio) leaves the task registry exactly as it was and submits no
\* job.
C40_RejectedAudioRequestChangesNothing ==
    [][(/\ ops' = ops + 1
        /\ response'.kind = "raise"
        /\ \E l \in AudioLanguages, o \in TextOverrides,
              r \in ReferenceAudio :
              generate_audio(response'.task, l, o, r))
          => (tasks' = tasks /\ calls' = calls)]_vars

\* C36: an operation invoked for one task leaves the record of every other
\* task as it is, under every interleaving of operations on two tasks: no
\* step touches two records, a step of a stage call or a background run of
\* task A touches no record but A's, and so does a call for A that raises.
C36_OtherTasksUntouched ==
    [][LET \* the record of task id was created, replaced or removed in
           \* this step
           Touched(id) ==
               IF id \in DOMAIN tasks /\ id \in DOMAIN tasks'
               THEN tasks'[id] # tasks[id]
               ELSE id \in DOMAIN tasks \/ id \in DOMAIN tasks'
       IN
       /\ \A a, b \in PairIds : (Touched(a) /\ Touched(b)) => a = b
       /\ \A c \in BagToSet(calls) \cup BagToSet(calls') :
             CopiesIn(c, calls') # CopiesIn(c, calls)
                => \A b \in PairIds \ {c.task} : ~Touched(b)
       /\ response'.kind = "raise"
             => \A b \in PairIds \ {response'.task} : ~Touched(b)]_vars

\* C36 witness: both tasks exist, one has its audio and a background run in
\* flight, the other has been written to by a stage of its own.
C36_Witness ==
    /\ DOMAIN tasks = PairIds
    /\ \E a, b \in PairIds :
          /\ a # b
          /\ RunCount(calls, a) = 1
          /\ tasks[a].status = GENERATING_IMAGE
          /\ tasks[b].status \notin {PENDING, GENERATING_IMAGE}

\* C38: deletion is final.  Once a task is deleted its record never comes
\* back, and a step of a stage call or of a background run that was in flight
\* for it, with the mutation and fail calls it makes, changes no record of
\* the registry.
C38_DeletionIsFinal ==
    [][LET \* task id was created and has been deleted since
           Deleted(id) ==
               /\ id \notin DOMAIN tasks
               /\ \A i \in 1..Len(uuid4) : uuid4[i] # id
       IN
       \A id \in PairIds :
          Deleted(id)
             => /\ id \notin DOMAIN tasks'
                /\ \A c \in BagToSet(calls) :
                      (c.task = id /\ CopiesIn(c, calls') < CopiesIn(c, calls))
                         => tasks' = tasks]_vars

\* C38 witness: a task was deleted while its background run was in flight,
\* and the other task is there with a stage of its own in flight.
C38_Witness ==
    \E a, b \in PairIds :
        /\ a \notin DOMAIN tasks
        /\ \A i \in 1..Len(uuid4) : uuid4[i] # a
        /\ RunCount(calls, a) = 1
        /\ b \in DOMAIN tasks
        /\ tasks[b].status = UPLOADING
        /\ Cardinality({c \in BagToSet(calls) : c.task = b}) = 1

====
